---- MODULE Spec2Model ----
(***************************************************************************)
(* Energy-Charts integration: the fetch client (api.py), the response      *)
(* normalizer (models.py) and the polling coordinator (coordinator.py).    *)
(*                                                                         *)
(* Strings the code inspects character by character (country codes,        *)
(* display names, source keys, endpoint file names) are sequences of       *)
(* one-character strings.  Numeric measurements are integers (MW).  An     *)
(* optional value is <<>> for None and <<v>> for a present value v.        *)
(***************************************************************************)
EXTENDS Integers, Sequences, FiniteSets, TLC

(***************************************************************************)
(* Bounds of the model.                                                    *)
(***************************************************************************)
\* largest attempt budget `retries` a direct caller of _make_request passes
MaxRetries == 3
\* largest `backoff_factor` a direct caller of _make_request passes
MaxBackoffFactor == 2
\* largest number of objects in the JSON list of one polled response
MaxItems == 3

(***************************************************************************)
(* Program constants.                                                      *)
(***************************************************************************)
API_BASE_URL == "https://www.energy-charts.info/charts/power/data"
API_TIMEOUT == 30
\* default of the parameter `retries` of _make_request
DefaultRetries == 3
\* default of the parameter `backoff_factor` of _make_request (1.0)
DefaultBackoffFactor == 1
HISTORICAL_RANGE_NONE == "none"
HISTORICAL_RANGE_OPTIONS == {"none", "day", "week", "month"}

(***************************************************************************)
(* str.lower() on the characters the model uses.                           *)
(***************************************************************************)
UpperAlphabet ==
  <<"A", "B", "C", "D", "E", "F", "G", "H", "I", "J", "K", "L", "M",
    "N", "O", "P", "Q", "R", "S", "T", "U", "V", "W", "X", "Y", "Z">>
LowerAlphabet ==
  <<"a", "b", "c", "d", "e", "f", "g", "h", "i", "j", "k", "l", "m",
    "n", "o", "p", "q", "r", "s", "t", "u", "v", "w", "x", "y", "z">>

UpperLetters == { UpperAlphabet[i] : i \in 1..Len(UpperAlphabet) }

LowerOfUpper ==
  [ c \in UpperLetters |->
      LowerAlphabet[CHOOSE i \in 1..Len(UpperAlphabet) : UpperAlphabet[i] = c] ]

LowerChar(c) == IF c \in UpperLetters THEN LowerOfUpper[c] ELSE c

Lower(s) == [i \in 1..Len(s) |-> LowerChar(s[i])]

(***************************************************************************)
(* Decimal formatting of the f-strings: {year} and {week:02d}.             *)
(***************************************************************************)
DigitChars == <<"0", "1", "2", "3", "4", "5", "6", "7", "8", "9">>

RECURSIVE Str(_)
Str(n) == IF n < 10 THEN <<DigitChars[n + 1]>>
          ELSE Str(n \div 10) \o <<DigitChars[(n % 10) + 1]>>

Fmt02d(n) == IF n < 10 THEN <<"0">> \o Str(n) ELSE Str(n)

(***************************************************************************)
(* datetime: proleptic Gregorian ordinals and date.isocalendar().          *)
(***************************************************************************)
IsLeap(y) == (y % 4 = 0) /\ ((y % 100 # 0) \/ (y % 400 = 0))

DaysBeforeYear(y) ==
  LET y1 == y - 1
  IN  y1 * 365 + (y1 \div 4) - (y1 \div 100) + (y1 \div 400)

DaysInMonth(y, m) ==
  IF m = 2 THEN (IF IsLeap(y) THEN 29 ELSE 28)
  ELSE IF m \in {4, 6, 9, 11} THEN 30 ELSE 31

RECURSIVE DaysBeforeMonth(_, _)
DaysBeforeMonth(y, m) ==
  IF m = 1 THEN 0 ELSE DaysBeforeMonth(y, m - 1) + DaysInMonth(y, m - 1)

Ymd2Ord(y, m, d) == DaysBeforeYear(y) + DaysBeforeMonth(y, m) + d

IsoWeek1Monday(y) ==
  LET firstday == Ymd2Ord(y, 1, 1)
      firstweekday == (firstday + 6) % 7
      week1monday == firstday - firstweekday
  IN  IF firstweekday > 3 THEN week1monday + 7 ELSE week1monday

\* now.isocalendar(): <<ISO year, ISO week, ISO weekday>>
IsoCalendar(dt) ==
  LET today == Ymd2Ord(dt.year, dt.month, dt.day)
      w0 == (today - IsoWeek1Monday(dt.year)) \div 7
      d0 == (today - IsoWeek1Monday(dt.year)) % 7
  IN  IF w0 < 0
      THEN <<dt.year - 1,
             ((today - IsoWeek1Monday(dt.year - 1)) \div 7) + 1,
             ((today - IsoWeek1Monday(dt.year - 1)) % 7) + 1>>
      ELSE IF w0 >= 52 /\ today >= IsoWeek1Monday(dt.year + 1)
      THEN <<dt.year + 1, 1, d0 + 1>>
      ELSE <<dt.year, w0 + 1, d0 + 1>>

\* the wall-clock instants datetime.now() returns, in time order
Dates ==
  << [year |-> 2024, month |-> 12, day |-> 30],
     [year |-> 2026, month |-> 10, day |-> 30],
     [year |-> 2027, month |-> 1, day |-> 1] >>

(***************************************************************************)
(* Endpoint file names and the request URL.                                *)
(***************************************************************************)
\* a variant that takes the calendar year where the code takes the ISO year
GetCurrentDayEndpointUsesCalendarYear(dt) ==
  <<"week_">> \o Str(dt.year) \o <<"_">> \o Fmt02d(IsoCalendar(dt)[2])
    \o <<".json">>

\* get_current_day: f"week_{year}_{week:02d}.json" of now.isocalendar()
GetCurrentDayEndpoint(dt) ==
  LET year == IsoCalendar(dt)[1]
      week == IsoCalendar(dt)[2]
  IN  <<"week_">> \o Str(year) \o <<"_">> \o Fmt02d(week) \o <<".json">>

\* get_current_week: f"week_{year}_{week:02d}.json" of now.isocalendar()
GetCurrentWeekEndpoint(dt) ==
  LET year == IsoCalendar(dt)[1]
      week == IsoCalendar(dt)[2]
  IN  <<"week_">> \o Str(year) \o <<"_">> \o Fmt02d(week) \o <<".json">>

\* get_current_month: f"month_{year}_{month:02d}.json" of now.year, now.month
GetCurrentMonthEndpoint(dt) ==
  <<"month_">> \o Str(dt.year) \o <<"_">> \o Fmt02d(dt.month) \o <<".json">>

\* get_specific_week: f"week_{year}_{week:02d}.json" of its arguments
GetSpecificWeekEndpoint(year, week) ==
  <<"week_">> \o Str(year) \o <<"_">> \o Fmt02d(week) \o <<".json">>

\* get_specific_month: f"month_{year}_{month:02d}.json" of its arguments
GetSpecificMonthEndpoint(year, month) ==
  <<"month_">> \o Str(year) \o <<"_">> \o Fmt02d(month) \o <<".json">>

\* __init__: self._country = country.lower()
ClientCountry(c) == Lower(c)

\* _make_request: url = f"{self._base_url}/{self._country}/{endpoint}"
Url(c, endpoint) ==
  <<API_BASE_URL, "/">> \o ClientCountry(c) \o <<"/">> \o endpoint

(***************************************************************************)
(* const.py: source keys, category lists and SOURCE_CATEGORIES.            *)
(***************************************************************************)
K_hydro_run_of_river == <<"h", "y", "d", "r", "o", "_", "r", "u", "n", "-",
  "o", "f", "-", "r", "i", "v", "e", "r">>
K_biomass == <<"b", "i", "o", "m", "a", "s", "s">>
K_wind_offshore == <<"w", "i", "n", "d", "_", "o", "f", "f", "s", "h", "o",
  "r", "e">>
K_wind_onshore == <<"w", "i", "n", "d", "_", "o", "n", "s", "h", "o", "r",
  "e">>
K_photovoltaic == <<"p", "h", "o", "t", "o", "v", "o", "l", "t", "a", "i",
  "c">>
K_solar == <<"s", "o", "l", "a", "r">>
K_hydro_water_reservoir == <<"h", "y", "d", "r", "o", "_", "w", "a", "t",
  "e", "r", "_", "r", "e", "s", "e", "r", "v", "o", "i", "r">>
K_geothermal == <<"g", "e", "o", "t", "h", "e", "r", "m", "a", "l">>
K_fossil_brown_coal_lignite == <<"f", "o", "s", "s", "i", "l", "_", "b",
  "r", "o", "w", "n", "_", "c", "o", "a", "l", "_", "l", "i", "g", "n", "i",
  "t", "e">>
K_fossil_brown_coal_slash_lignite == <<"f", "o", "s", "s", "i", "l", "_",
  "b", "r", "o", "w", "n", "_", "c", "o", "a", "l", "/", "l", "i", "g", "n",
  "i", "t", "e">>
K_fossil_hard_coal == <<"f", "o", "s", "s", "i", "l", "_", "h", "a", "r",
  "d", "_", "c", "o", "a", "l">>
K_fossil_coal_derived_gas == <<"f", "o", "s", "s", "i", "l", "_", "c", "o",
  "a", "l", "-", "d", "e", "r", "i", "v", "e", "d", "_", "g", "a", "s">>
K_fossil_gas == <<"f", "o", "s", "s", "i", "l", "_", "g", "a", "s">>
K_fossil_oil == <<"f", "o", "s", "s", "i", "l", "_", "o", "i", "l">>
K_nuclear == <<"n", "u", "c", "l", "e", "a", "r">>
K_hydro_pumped_storage == <<"h", "y", "d", "r", "o", "_", "p", "u", "m",
  "p", "e", "d", "_", "s", "t", "o", "r", "a", "g", "e">>
K_battery == <<"b", "a", "t", "t", "e", "r", "y">>
K_battery_storage == <<"b", "a", "t", "t", "e", "r", "y", "_", "s", "t",
  "o", "r", "a", "g", "e">>

CATEGORY_RENEWABLE == "renewable"
CATEGORY_FOSSIL == "fossil"
CATEGORY_NUCLEAR == "nuclear"
CATEGORY_STORAGE == "storage"

FOSSIL_SOURCES ==
  << K_fossil_brown_coal_lignite, K_fossil_brown_coal_slash_lignite,
     K_fossil_hard_coal, K_fossil_coal_derived_gas, K_fossil_gas,
     K_fossil_oil >>

\* the keys of the dict SOURCE_CATEGORIES, by category
SourceCategoryKeys(category) ==
  CASE category = CATEGORY_RENEWABLE ->
         { K_hydro_run_of_river, K_biomass, K_wind_offshore, K_wind_onshore,
           K_photovoltaic, K_solar, K_hydro_water_reservoir, K_geothermal }
    [] category = CATEGORY_FOSSIL ->
         { K_fossil_brown_coal_lignite, K_fossil_brown_coal_slash_lignite,
           K_fossil_hard_coal, K_fossil_coal_derived_gas, K_fossil_gas,
           K_fossil_oil }
    [] category = CATEGORY_NUCLEAR -> { K_nuclear }
    [] category = CATEGORY_STORAGE ->
         { K_hydro_pumped_storage, K_battery, K_battery_storage }

Categories ==
  {CATEGORY_RENEWABLE, CATEGORY_FOSSIL, CATEGORY_NUCLEAR, CATEGORY_STORAGE}

\* SOURCE_CATEGORIES.get(source_key, "other")
SOURCE_CATEGORIES_get(source_key) ==
  IF \E c \in Categories : source_key \in SourceCategoryKeys(c)
  THEN CHOOSE c \in Categories : source_key \in SourceCategoryKeys(c)
  ELSE "other"

(***************************************************************************)
(* Python str operations on character sequences.                           *)
(***************************************************************************)
\* sub in s
Contains(s, sub) ==
  \E i \in 0..(Len(s) - Len(sub)) : SubSeq(s, i + 1, i + Len(sub)) = sub

\* s.replace(old, new) for a one-character old and a new of at most one
\* character (new is a character sequence)
ReplaceChar(s, old, new) ==
  IF new = <<>> THEN SelectSeq(s, LAMBDA c : c # old)
  ELSE [ i \in 1..Len(s) |-> IF s[i] = old THEN new[1] ELSE s[i] ]

\* s.replace("__", "_"): non-overlapping occurrences, left to right
RECURSIVE ReplaceDoubleUnderscore(_)
ReplaceDoubleUnderscore(s) ==
  IF Len(s) < 2 THEN s
  ELSE IF s[1] = "_" /\ s[2] = "_"
       THEN <<"_">> \o ReplaceDoubleUnderscore(SubSeq(s, 3, Len(s)))
       ELSE <<s[1]>> \o ReplaceDoubleUnderscore(Tail(s))

\* while "__" in key: key = key.replace("__", "_")
RECURSIVE CollapseUnderscores(_)
CollapseUnderscores(key) ==
  IF Contains(key, <<"_", "_">>)
  THEN CollapseUnderscores(ReplaceDoubleUnderscore(key))
  ELSE key

RECURSIVE LStrip(_, _)
LStrip(s, c) ==
  IF s # <<>> /\ Head(s) = c THEN LStrip(Tail(s), c) ELSE s

RECURSIVE RStrip(_, _)
RStrip(s, c) ==
  IF s # <<>> /\ s[Len(s)] = c THEN RStrip(SubSeq(s, 1, Len(s) - 1), c) ELSE s

\* s.strip(c)
Strip(s, c) == RStrip(LStrip(s, c), c)

(***************************************************************************)
(* models.py: EnergyDataSeries.                                            *)
(*                                                                         *)
(* A raw JSON value of the "name" field is a tagged record [t, v]:         *)
(*   t = "dict": v is the mapping language code -> display name            *)
(*   t = "list": v is the sequence of the list's (tagged) elements         *)
(*   t = "str", "num", "null": v is <<>>                                   *)
(***************************************************************************)
N_Unknown == <<"U", "n", "k", "n", "o", "w", "n">>
N_Unbekannt == <<"U", "n", "b", "e", "k", "a", "n", "n", "t">>

EmptyDict == [t |-> "dict", v |-> <<>>]

\* EnergyDataSeries.normalize_name (field validator, mode="before")
normalize_name(v) ==
  IF v.t = "list" /\ Len(v.v) > 0 THEN v.v[1]
  ELSE IF v.t = "dict" THEN v
  ELSE EmptyDict

\* pydantic accepts the normalized name for the field name: dict[str, str]
NameValidates(v) == normalize_name(v).t = "dict"

\* EnergyDataSeries.name_en: self.name.get("en", "Unknown")
name_en(series) ==
  IF "en" \in DOMAIN series.name THEN series.name["en"] ELSE N_Unknown

\* EnergyDataSeries.name_de: self.name.get("de", "Unbekannt")
name_de(series) ==
  IF "de" \in DOMAIN series.name THEN series.name["de"] ELSE N_Unbekannt

\* a variant that leaves the hyphens in
keyKeepsHyphens(series) ==
  LET name == Lower(name_en(series))
      k1 == ReplaceChar(name, " ", <<"_">>)
      k2 == ReplaceChar(k1, "/", <<"_">>)
      k4 == ReplaceChar(k2, "(", <<>>)
      k5 == ReplaceChar(k4, ")", <<>>)
      k6 == ReplaceChar(k5, ",", <<>>)
  IN  Strip(CollapseUnderscores(k6), "_")

\* a variant without the final strip("_")
keyWithoutStrip(series) ==
  LET name == Lower(name_en(series))
      k1 == ReplaceChar(name, " ", <<"_">>)
      k2 == ReplaceChar(k1, "/", <<"_">>)
      k3 == ReplaceChar(k2, "-", <<"_">>)
      k4 == ReplaceChar(k3, "(", <<>>)
      k5 == ReplaceChar(k4, ")", <<>>)
      k6 == ReplaceChar(k5, ",", <<>>)
  IN  CollapseUnderscores(k6)

\* EnergyDataSeries.key
key(series) ==
  LET name == Lower(name_en(series))
      k1 == ReplaceChar(name, " ", <<"_">>)
      k2 == ReplaceChar(k1, "/", <<"_">>)
      k3 == ReplaceChar(k2, "-", <<"_">>)
      k4 == ReplaceChar(k3, "(", <<>>)
      k5 == ReplaceChar(k4, ")", <<>>)
      k6 == ReplaceChar(k5, ",", <<>>)
  IN  Strip(CollapseUnderscores(k6), "_")

\* EnergyDataSeries.latest_value: <<>> is None
RECURSIVE latest_value_of(_)
latest_value_of(data) ==
  IF data = <<>> THEN <<>>
  ELSE IF data[Len(data)] # <<>> THEN data[Len(data)]
  ELSE latest_value_of(SubSeq(data, 1, Len(data) - 1))

\* a variant that tests `if value:` and so passes over a 0 as well
RECURSIVE LastTruthy(_)
LastTruthy(data) ==
  IF data = <<>> THEN <<>>
  ELSE IF data[Len(data)] # <<>> /\ data[Len(data)] # <<0>>
       THEN data[Len(data)]
       ELSE LastTruthy(SubSeq(data, 1, Len(data) - 1))

latest_valueSkipsZero(series) == LastTruthy(series.data)

latest_value(series) == latest_value_of(series.data)

\* datetime.fromtimestamp(ts / 1000)
FromTimestampMs(ts) == [datetime_ms |-> ts]

\* EnergyDataSeries.latest_timestamp: <<>> is None
latest_timestamp(series) ==
  LET hits == { i \in 1..Len(series.data) :
                  series.data[i] # <<>> /\ i <= Len(series.timestamps) }
  IN  IF series.timestamps = <<>> \/ series.data = <<>> \/ hits = {}
      THEN <<>>
      ELSE <<FromTimestampMs(
               series.timestamps[CHOOSE i \in hits : \A j \in hits : j <= i])>>

(***************************************************************************)
(* models.py: EnergyChartsResponse.from_api_response.                      *)
(***************************************************************************)
ItemGet(item, field, default) ==
  IF field \in DOMAIN item THEN item[field] ELSE default

\* a variant that skips only the items without a name
IsSeriesItemNeedsOnlyName(item) == "name" \in DOMAIN item

\* the items the loop does not skip
IsSeriesItem(item) == "name" \in DOMAIN item /\ "data" \in DOMAIN item

\* EnergyDataSeries(name=..., color=..., data=..., timestamps=..., visible=...)
MakeSeries(item, timestamps) ==
  [ name |-> normalize_name(item["name"]).v,
    color |-> ItemGet(item, "color", "#000000"),
    data |-> ItemGet(item, "data", <<>>),
    timestamps |-> timestamps,
    visible |-> ItemGet(item, "visible", TRUE) ]

RECURSIVE SeriesOf(_, _)
SeriesOf(items, timestamps) ==
  IF items = <<>> THEN <<>>
  ELSE (IF IsSeriesItem(Head(items))
        THEN <<MakeSeries(Head(items), timestamps)>> ELSE <<>>)
         \o SeriesOf(Tail(items), timestamps)

\* from_api_response: [ok |-> TRUE, data_series |-> ...], or ok = FALSE when
\* building a series raises pydantic's ValidationError
from_api_response(response_data) ==
  IF response_data = <<>> THEN [ok |-> TRUE, data_series |-> <<>>]
  ELSE IF \E i \in 1..Len(response_data) :
            IsSeriesItem(response_data[i])
              /\ ~NameValidates(response_data[i]["name"])
       THEN [ok |-> FALSE, data_series |-> <<>>]
       ELSE [ok |-> TRUE,
             data_series |->
               SeriesOf(response_data,
                        ItemGet(response_data[1], "xAxisValues", <<>>))]

(***************************************************************************)
(* coordinator.py: the aggregation engine.                                 *)
(***************************************************************************)
N_planned == <<"_", "p", "l", "a", "n", "n", "e", "d">>
N_forecast == <<"f", "o", "r", "e", "c", "a", "s", "t">>

RECURSIVE SumOver(_, _)
\* the sum of f[k] over the keys k of the set S
SumOver(S, f) ==
  IF S = {} THEN 0
  ELSE LET k == CHOOSE x \in S : TRUE
       IN  f[k] + SumOver(S \ {k}, f)

(***************************************************************************)
(* Binary floating point, as far as `round((a / b) * 100, 2)` needs it: a  *)
(* positive double is mantissa * 2^(-scale) with a mantissa of 53 bits,    *)
(* and every operation rounds its exact result to the nearest such number, *)
(* ties to the even mantissa.  A mantissa is a sequence of limbs below     *)
(* 1024, the least significant first.                                      *)
(***************************************************************************)
RECURSIVE BinaryExponent(_, _)
\* the e with 2^e <= a / b < 2^(e+1), for a > 0 and b > 0
BinaryExponent(a, b) ==
  IF a < b THEN BinaryExponent(2 * a, b) - 1
  ELSE IF a >= 2 * b THEN BinaryExponent(a, 2 * b) + 1
  ELSE 0

RECURSIVE BigTimes(_, _, _)
\* limbs * k + carry
BigTimes(limbs, k, carry) ==
  IF limbs = <<>>
  THEN IF carry = 0 THEN <<>>
       ELSE <<carry % 1024>> \o BigTimes(<<>>, k, carry \div 1024)
  ELSE LET v == Head(limbs) * k + carry
       IN  <<v % 1024>> \o BigTimes(Tail(limbs), k, v \div 1024)

RECURSIVE BigTrim(_)
\* without the zero limbs at the significant end
BigTrim(limbs) ==
  IF limbs # <<>> /\ limbs[Len(limbs)] = 0
  THEN BigTrim(SubSeq(limbs, 1, Len(limbs) - 1))
  ELSE limbs

RECURSIVE BitLength(_)
\* int.bit_length()
BitLength(n) == IF n = 0 THEN 0 ELSE 1 + BitLength(n \div 2)

BigBitLength(limbs) ==
  IF limbs = <<>> THEN 0
  ELSE 10 * (Len(limbs) - 1) + BitLength(limbs[Len(limbs)])

RECURSIVE BigToInt(_)
BigToInt(limbs) ==
  IF limbs = <<>> THEN 0 ELSE Head(limbs) + 1024 * BigToInt(Tail(limbs))

\* limbs / 2^d rounded to the nearest integer, ties to even
BigRoundShift(limbs, d) ==
  LET L == (d + 9) \div 10
      scaled == BigTimes(limbs, 2 ^ (10 * L - d), 0)
      quotient == IF Len(scaled) > L THEN SubSeq(scaled, L + 1, Len(scaled))
                  ELSE <<>>
      top == IF L >= 1 /\ Len(scaled) >= L THEN scaled[L] ELSE 0
      below == \E i \in 1..(L - 1) : i <= Len(scaled) /\ scaled[i] # 0
      odd == quotient # <<>> /\ quotient[1] % 2 = 1
  IN  IF top > 512 \/ (top = 512 /\ (below \/ odd))
      THEN BigTimes(quotient, 1, 1)
      ELSE quotient

RECURSIVE LongDivision(_, _, _)
\* the next L limbs of r / b, for r < b, and the remainder after them
LongDivision(r, b, L) ==
  IF L = 0 THEN [q |-> <<>>, r |-> r]
  ELSE LET rest == LongDivision((r * 1024) % b, b, L - 1)
       IN  [q |-> rest.q \o <<(r * 1024) \div b>>, r |-> rest.r]

\* the double a / b, for integers a > 0 and b > 0
FloatDiv(a, b) ==
  LET scale == 52 - BinaryExponent(a, b)
      n0 == a * 2 ^ (scale % 10)
      d == LongDivision(n0 % b, b, scale \div 10)
      floor == BigTrim(BigTimes(d.q \o <<n0 \div b>>, 1, 0))
  IN  [ mantissa |-> IF 2 * d.r > b \/ (2 * d.r = b /\ floor[1] % 2 = 1)
                     THEN BigTimes(floor, 1, 1) ELSE floor,
        scale |-> scale ]

\* the double x * k, for a double x > 0 and an integer k > 0
FloatTimes(x, k) ==
  LET product == BigTimes(x.mantissa, k, 0)
      d == IF BigBitLength(product) > 53 THEN BigBitLength(product) - 53
           ELSE 0
  IN  [ mantissa |-> BigRoundShift(product, d), scale |-> x.scale - d ]

\* round(x, 2) in hundredths: float.__round__ rounds the exact value of the
\* double x, ties to even
Round2(x) == BigToInt(BigRoundShift(BigTimes(x.mantissa, 100, 0), x.scale))

\* round((total_renewable / total_production) * 100, 2) in hundredths, for
\* total_production > 0; a negative quotient is the mirror image of the
\* positive one
RenewableShare(total_renewable, total_production) ==
  IF total_renewable = 0 THEN 0
  ELSE IF total_renewable > 0
  THEN Round2(FloatTimes(FloatDiv(total_renewable, total_production), 100))
  ELSE 0 - Round2(FloatTimes(FloatDiv(0 - total_renewable,
                                      total_production), 100))

\* a variant that knows the "forecast" marker only
IsForecastKeyForecastOnly(source_key) == Contains(source_key, N_forecast)

\* the loop's test: "_planned" in source_key or "forecast" in source_key
IsForecastKey(source_key) ==
  Contains(source_key, N_planned) \/ Contains(source_key, N_forecast)

\* source_key = series.key.lower()
SourceKey(series) == Lower(key(series))

\* the dict source_data built for one series
SourceData(series, source_key) ==
  [ value |-> latest_value(series),
    unit |-> "MW",
    timestamp |-> latest_timestamp(series),
    name_en |-> name_en(series),
    name_de |-> name_de(series),
    color |-> series.color,
    category |-> SOURCE_CATEGORIES_get(source_key),
    key |-> source_key ]

\* a variant in which the first series of a key stays and later ones are
\* ignored
BuildSourcesKeepsFirst(data_series) ==
  LET keyOf == [ i \in 1..Len(data_series) |-> SourceKey(data_series[i]) ]
      kept == { i \in 1..Len(data_series) : ~IsForecastKey(keyOf[i]) }
      firstOf(k) == CHOOSE i \in kept :
                      /\ keyOf[i] = k
                      /\ \A j \in kept : keyOf[j] = k => i <= j
  IN  [ k \in { keyOf[i] : i \in kept } |->
          SourceData(data_series[firstOf(k)], k) ]

\* the loop over response.data_series: a forecast series is skipped, and
\* data["sources"][source_key] = {...} replaces what the key held before
RECURSIVE BuildSourcesLoop(_, _)
BuildSourcesLoop(data_series, sources) ==
  IF data_series = <<>> THEN sources
  ELSE LET series == Head(data_series)
           source_key == SourceKey(series)
       IN  BuildSourcesLoop(Tail(data_series),
             IF IsForecastKey(source_key) THEN sources
             ELSE (source_key :> SourceData(series, source_key)) @@ sources)

\* data["sources"] after the loop: a later series overwrites an earlier one
\* of the same key
BuildSources(data_series) ==
  BuildSourcesLoop(data_series, <<>>)

\* a variant that adds every present value to total_production
calculate_aggregatedCountsNegative(sources) ==
  LET present == { k \in DOMAIN sources : sources[k].value # <<>> }
      val == [ k \in present |-> sources[k].value[1] ]
      ofCategory(c) == { k \in present : sources[k].category = c }
      total_production == SumOver(present, val)
      total_renewable == SumOver(ofCategory(CATEGORY_RENEWABLE), val)
      total_fossil == SumOver(ofCategory(CATEGORY_FOSSIL), val)
      total_nuclear == SumOver(ofCategory(CATEGORY_NUCLEAR), val)
  IN  [ total_production |-> total_production,
        total_renewable |-> total_renewable,
        total_fossil |-> total_fossil,
        total_nuclear |-> total_nuclear,
        renewable_share |->
          IF total_production > 0
          THEN RenewableShare(total_renewable, total_production)
          ELSE 0 ]

\* a variant that cuts the share off after two decimals
calculate_aggregatedTruncatesShare(sources) ==
  LET present == { k \in DOMAIN sources : sources[k].value # <<>> }
      val == [ k \in present |-> sources[k].value[1] ]
      ofCategory(c) == { k \in present : sources[k].category = c }
      total_production == SumOver({ k \in present : val[k] > 0 }, val)
      total_renewable == SumOver(ofCategory(CATEGORY_RENEWABLE), val)
      total_fossil == SumOver(ofCategory(CATEGORY_FOSSIL), val)
      total_nuclear == SumOver(ofCategory(CATEGORY_NUCLEAR), val)
  IN  [ total_production |-> total_production,
        total_renewable |-> total_renewable,
        total_fossil |-> total_fossil,
        total_nuclear |-> total_nuclear,
        renewable_share |->
          IF total_production > 0
          THEN (total_renewable * 10000) \div total_production
          ELSE 0 ]

\* _calculate_aggregated; renewable_share is in hundredths of a percent
calculate_aggregated(sources) ==
  LET present == { k \in DOMAIN sources : sources[k].value # <<>> }
      val == [ k \in present |-> sources[k].value[1] ]
      ofCategory(c) == { k \in present : sources[k].category = c }
      total_production == SumOver({ k \in present : val[k] > 0 }, val)
      total_renewable == SumOver(ofCategory(CATEGORY_RENEWABLE), val)
      total_fossil == SumOver(ofCategory(CATEGORY_FOSSIL), val)
      total_nuclear == SumOver(ofCategory(CATEGORY_NUCLEAR), val)
  IN  [ total_production |-> total_production,
        total_renewable |-> total_renewable,
        total_fossil |-> total_fossil,
        total_nuclear |-> total_nuclear,
        renewable_share |->
          IF total_production > 0
          THEN RenewableShare(total_renewable, total_production)
          ELSE 0 ]

\* one group sum of _calculate_categories:
\* if key in sources and sources[key].get("value"): total += value
RECURSIVE GroupSum(_, _)
GroupSum(members, sources) ==
  IF members = <<>> THEN 0
  ELSE LET k == Head(members)
       IN  (IF k \in DOMAIN sources /\ sources[k].value # <<>>
                 /\ sources[k].value[1] # 0
            THEN sources[k].value[1] ELSE 0)
             + GroupSum(Tail(members), sources)

\* a variant whose solar group has the one member "solar"
calculate_categoriesSolarOnly(sources) ==
  [ solar_total |-> GroupSum(<<K_solar>>, sources),
    wind_total |-> GroupSum(<<K_wind_onshore, K_wind_offshore>>, sources),
    hydro_total |->
      GroupSum(<<K_hydro_run_of_river, K_hydro_water_reservoir,
                 K_hydro_pumped_storage>>, sources),
    fossil_total |-> GroupSum(FOSSIL_SOURCES, sources) ]

\* _calculate_categories
calculate_categories(sources) ==
  [ solar_total |-> GroupSum(<<K_photovoltaic, K_solar>>, sources),
    wind_total |-> GroupSum(<<K_wind_onshore, K_wind_offshore>>, sources),
    hydro_total |->
      GroupSum(<<K_hydro_run_of_river, K_hydro_water_reservoir,
                 K_hydro_pumped_storage>>, sources),
    fossil_total |-> GroupSum(FOSSIL_SOURCES, sources) ]

\* _process_response
process_response(response, timestamp) ==
  LET sources == BuildSources(response.data_series)
  IN  [ timestamp |-> timestamp,
        raw_response |-> response,
        sources |-> sources,
        aggregated |-> calculate_aggregated(sources),
        categories |-> calculate_categories(sources),
        history |-> <<>>,
        forecasts |-> <<>> ]

\* _fetch_historical_data, the conversion loop: `for ts, val in series.data`
\* unpacks each element of a list of float | None, which raises TypeError
\* at the first element of the first series whose data is not empty; the
\* method's except clause swallows it and returns the history built so far
RECURSIVE HistoryLoop(_, _)
HistoryLoop(data_series, history) ==
  IF data_series = <<>> THEN history
  ELSE IF Head(data_series).data # <<>> THEN history
  ELSE HistoryLoop(
         Tail(data_series),
         [ k \in (DOMAIN history) \cup {SourceKey(Head(data_series))} |->
             <<>> ])

(***************************************************************************)
(* The HTTP server's answers: what one `session.get` can produce.          *)
(***************************************************************************)
N_Solar == <<"S", "o", "l", "a", "r">>
N_Wind_onshore == <<"W", "i", "n", "d", " ", "o", "n", "s", "h", "o", "r",
  "e">>
N_Fossil_gas == <<"F", "o", "s", "s", "i", "l", " ", "g", "a", "s">>
N_Erdgas == <<"E", "r", "d", "g", "a", "s">>
N_Nuclear == <<"N", "u", "c", "l", "e", "a", "r">>
N_Solar_forecast == <<"S", "o", "l", "a", "r", " ", "f", "o", "r", "e", "c",
  "a", "s", "t">>

NameDict(m) == [t |-> "dict", v |-> m]
NameList(l) == [t |-> "list", v |-> l]
NameStr == [t |-> "str", v |-> <<>>]

\* three series over two ticks; the name comes in both of the API's shapes
PayloadA ==
  << [ name |-> NameList(<<NameDict([en |-> N_Solar, de |-> N_Solar])>>),
       color |-> "#FFD700",
       data |-> << <<5>>, <<>> >>,
       xAxisValues |-> <<1000, 2000>> ],
     [ name |-> NameDict([en |-> N_Wind_onshore]),
       data |-> << <<3>>, <<4>> >> ],
     [ name |-> NameDict([en |-> N_Fossil_gas, de |-> N_Erdgas]),
       color |-> "#808080",
       data |-> << <<7>>, <<>> >> ] >>

\* a metadata object without name and data, a series without any
\* measurement, a series and a forecast series
PayloadB ==
  << [ xAxisValues |-> <<3000>> ],
     [ name |-> NameDict([en |-> N_Nuclear]), data |-> <<>> ],
     [ name |-> NameDict([en |-> N_Solar]), data |-> << <<9>> >> ],
     [ name |-> NameDict([en |-> N_Solar_forecast]),
       data |-> << <<11>> >> ] >>

\* a list whose first element is not a mapping: the series does not validate
PayloadBadName ==
  << [ name |-> NameList(<<NameStr>>), data |-> << <<1>> >>,
       xAxisValues |-> <<1000>> ] >>

Payloads == { <<>>, PayloadA, PayloadB, PayloadBadName }

\* response.json(): a list, another JSON value, a body that is not JSON
\* (json.JSONDecodeError) or not served as JSON (aiohttp.ContentTypeError)
Bodies ==
  { [json |-> "list", v |-> p] : p \in Payloads }
    \cup { [json |-> j, v |-> <<>>] : j \in {"dict", "invalid", "content_type"} }

Statuses == {200, 404, 500}

NoBody == [json |-> "none", v |-> <<>>]

\* the outcomes of `async with self._session.get(url, timeout=timeout)`:
\* asyncio.TimeoutError, aiohttp.ClientError, or the server's response: its
\* status and the body it sends, which response.json() reads later
Outcomes ==
  { [t |-> "TimeoutError", status |-> 0, body |-> NoBody],
    [t |-> "ClientError", status |-> 0, body |-> NoBody] }
    \cup { [t |-> "response", status |-> s, body |-> b] :
             s \in Statuses, b \in Bodies }

NoOutcome == [t |-> "none", status |-> 0, body |-> NoBody]

(***************************************************************************)
(* The raw objects the JSON list of one polled response is made of: the    *)
(* argument response_data of from_api_response.                            *)
(***************************************************************************)
N_Photovoltaic ==
  <<"P", "h", "o", "t", "o", "v", "o", "l", "t", "a", "i", "c">>
N_Biomass ==
  <<"B", "i", "o", "m", "a", "s", "s">>
N_Brown_coal ==
  <<"F", "o", "s", "s", "i", "l", " ", "b", "r", "o", "w", "n", " ", "c",
  "o", "a", "l", " ", "/", " ", "l", "i", "g", "n", "i", "t", "e">>
N_Braunkohle ==
  <<"B", "r", "a", "u", "n", "k", "o", "h", "l", "e">>
N_Wind_planned ==
  <<"W", "i", "n", "d", " ", "o", "n", "s", "h", "o", "r", "e", ",", " ",
  "p", "l", "a", "n", "n", "e", "d">>
N_Load ==
  <<"-", " ", "L", "o", "a", "d", " ", "(", "i", "n", "c", "l", ".", " ",
  "s", "e", "l", "f", "-", "c", "o", "n", "s", "u", "m", "p", "t", "i", "o",
  "n", ")", " ">>

\* JSON null, a JSON number and an empty JSON list as the "name" field
NameNull == [t |-> "null", v |-> <<>>]
NameNum == [t |-> "num", v |-> <<>>]
NameEmptyList == [t |-> "list", v |-> <<>>]

\* objects the loop skips: no "name" and no "data" (the metadata object that
\* carries the time axis), no "data", no "name"
ItemMeta == [ xAxisValues |-> <<1000, 2000, 3000>> ]
ItemNoData == [ name |-> NameDict([en |-> N_Solar]), color |-> "#FFD700" ]
ItemNoName == [ data |-> << <<99>> >>, color |-> "#000001" ]

\* series objects; the values are MW
ItemSolar ==
  [ name |-> NameList(<<NameDict([en |-> N_Solar, de |-> N_Solar])>>),
    color |-> "#FFD700", data |-> << <<>>, <<10>> >> ]
ItemWindOnshore ==
  [ name |-> NameDict([en |-> N_Wind_onshore]),
    data |-> << <<5>>, <<>>, <<>> >> ]
ItemFossilGas ==
  [ name |-> NameDict([en |-> N_Fossil_gas, de |-> N_Erdgas]),
    data |-> << <<20>> >> ]
ItemNuclear ==
  [ name |-> NameDict([en |-> N_Nuclear]), data |-> << <<>>, <<>> >> ]
ItemPhotovoltaic ==
  [ name |-> NameDict([en |-> N_Photovoltaic]), data |-> << <<23>> >> ]
ItemBrownCoal ==
  [ name |-> NameDict([en |-> N_Brown_coal, de |-> N_Braunkohle]),
    data |-> << <<4>>, <<0>> >> ]
ItemBiomass ==
  [ name |-> NameDict([en |-> N_Biomass]), data |-> << <<-2>> >> ]
ItemLoad ==
  [ name |-> NameDict([en |-> N_Load]), data |-> << <<137>> >> ]
ItemSolarForecast ==
  [ name |-> NameDict([en |-> N_Solar_forecast]), data |-> << <<11>> >> ]
ItemWindPlanned ==
  [ name |-> NameDict([en |-> N_Wind_planned]), data |-> << <<12>> >> ]

\* series objects whose "name" is neither a mapping nor a list holding one
ItemNameOnlyGerman ==
  [ name |-> NameDict([de |-> N_Erdgas]), data |-> << <<6>> >> ]
ItemNameListOfStr ==
  [ name |-> NameList(<<NameStr>>), data |-> << <<1>> >> ]
ItemNameStr == [ name |-> NameStr, data |-> << <<2>> >> ]
ItemNameNull == [ name |-> NameNull, data |-> << <<3>> >> ]
ItemNameNum == [ name |-> NameNum, data |-> <<>> ]
ItemNameEmptyList == [ name |-> NameEmptyList, data |-> << <<9>> >> ]

RawItems ==
  { ItemMeta, ItemNoData, ItemNoName, ItemSolar, ItemWindOnshore,
    ItemFossilGas, ItemNuclear, ItemPhotovoltaic, ItemBrownCoal, ItemBiomass,
    ItemLoad, ItemSolarForecast, ItemWindPlanned, ItemNameOnlyGerman,
    ItemNameListOfStr, ItemNameStr, ItemNameNull, ItemNameNum,
    ItemNameEmptyList }

\* English names of further production series of the API
N_Hydro_Run_of_River ==
  <<"H", "y", "d", "r", "o", " ", "R", "u", "n", "-", "o", "f", "-", "R",
  "i", "v", "e", "r">>
N_Hydro_water_reservoir ==
  <<"H", "y", "d", "r", "o", " ", "w", "a", "t", "e", "r", " ", "r", "e",
  "s", "e", "r", "v", "o", "i", "r">>
N_Hydro_pumped_storage ==
  <<"H", "y", "d", "r", "o", " ", "p", "u", "m", "p", "e", "d", " ", "s",
  "t", "o", "r", "a", "g", "e">>
N_Fossil_coal_derived_gas ==
  <<"F", "o", "s", "s", "i", "l", " ", "c", "o", "a", "l", "-", "d", "e",
  "r", "i", "v", "e", "d", " ", "g", "a", "s">>
N_Fossil_hard_coal ==
  <<"F", "o", "s", "s", "i", "l", " ", "h", "a", "r", "d", " ", "c", "o",
  "a", "l">>
N_Wind_offshore ==
  <<"W", "i", "n", "d", " ", "o", "f", "f", "s", "h", "o", "r", "e">>

\* further series objects: the hydro group, two members of the fossil group,
\* and a first object that carries a time axis of one instant next to a
\* series of two values
ItemHydroRunOfRiver ==
  [ name |-> NameDict([en |-> N_Hydro_Run_of_River]), data |-> << <<8>> >> ]
ItemHydroReservoir ==
  [ name |-> NameDict([en |-> N_Hydro_water_reservoir]),
    data |-> << <<3>> >> ]
ItemHydroPumped ==
  [ name |-> NameDict([en |-> N_Hydro_pumped_storage]), data |-> << <<2>> >> ]
ItemCoalDerivedGas ==
  [ name |-> NameDict([en |-> N_Fossil_coal_derived_gas]),
    data |-> << <<6>> >> ]
ItemHardCoal ==
  [ name |-> NameDict([en |-> N_Fossil_hard_coal]), data |-> << <<13>> >> ]
ItemWindOffshoreShortAxis ==
  [ name |-> NameDict([en |-> N_Wind_offshore]),
    xAxisValues |-> <<1000>>,
    data |-> << <<4>>, <<9>> >> ]

\* the objects of a response of the production series
GroupItems ==
  { ItemHydroRunOfRiver, ItemHydroReservoir, ItemHydroPumped,
    ItemCoalDerivedGas, ItemHardCoal, ItemWindOffshoreShortAxis,
    ItemPhotovoltaic, ItemFossilGas, ItemBiomass, ItemLoad,
    ItemNameNull, ItemNameEmptyList }

(***************************************************************************)
(* api.py: one attempt of _make_request.                                   *)
(***************************************************************************)
\* a variant without `response.raise_for_status()`
TryGetIgnoresStatus(o) ==
  IF o.t = "TimeoutError" THEN "asyncio.TimeoutError"
  ELSE IF o.t = "ClientError" THEN "aiohttp.ClientError"
  ELSE IF o.status = 404 THEN "EnergyChartsNotFoundError"
  ELSE "None"

\* the try block up to `await response.json()`: the exception class raised
\* there, "None" when the body is awaited
TryGet(o) ==
  IF o.t = "TimeoutError" THEN "asyncio.TimeoutError"
  ELSE IF o.t = "ClientError" THEN "aiohttp.ClientError"
  ELSE IF o.status = 404 THEN "EnergyChartsNotFoundError"
  ELSE IF o.status >= 400 THEN "aiohttp.ClientError"
  ELSE "None"

\* the try block from `await response.json()` on: the exception class
\* raised there, "None" when it reaches `return data`
TryJson(o) ==
  IF o.body.json = "content_type" THEN "aiohttp.ClientError"
  ELSE IF o.body.json = "invalid" THEN "Exception"
  ELSE IF o.body.json # "list" THEN "EnergyChartsDataError"
  ELSE "None"

\* the body of the try block: the exception class it raises, "None" when it
\* reaches `return data`
TryBody(o) == IF TryGet(o) # "None" THEN TryGet(o) ELSE TryJson(o)

\* a variant in which asyncio.CancelledError derives from Exception, as it
\* did before Python 3.8
IsExceptionBefore38(cls) == TRUE

\* issubclass(cls, Exception), what `except Exception` tests:
\* asyncio.CancelledError derives from BaseException only
IsException(cls) == cls # "asyncio.CancelledError"

\* the except clauses: the value they assign to last_exception, or the class
\* that leaves the try statement: "EnergyChartsNotFoundError" for the clause
\* that re-raises, and a class that no clause matches
ExceptClause(raised) ==
  IF ~IsException(raised) THEN raised
  ELSE IF raised = "asyncio.TimeoutError" THEN "EnergyChartsTimeoutError"
  ELSE IF raised = "aiohttp.ClientError" THEN "EnergyChartsConnectionError"
  ELSE IF raised = "EnergyChartsNotFoundError" THEN "EnergyChartsNotFoundError"
  ELSE "EnergyChartsDataError"

\* how one attempt ends: "None" (success) or the failure class
AttemptFailure(o) ==
  IF TryBody(o) = "None" THEN "None" ELSE ExceptClause(TryBody(o))

\* a variant with the same total timeout on every attempt
AttemptTimeoutFlat(attempt_) == API_TIMEOUT

\* timeout = aiohttp.ClientTimeout(total=API_TIMEOUT * (attempt + 1))
AttemptTimeout(attempt_) == API_TIMEOUT * (attempt_ + 1)

\* wait_time = backoff_factor * (2**attempt)
WaitTime(backoff_factor_, attempt_) == backoff_factor_ * (2 ^ attempt_)

NoResult == [kind |-> "none", exc |-> "None", data |-> <<>>]
Return(d) == [kind |-> "return", exc |-> "None", data |-> d]
Raise(e) == [kind |-> "raise", exc |-> e, data |-> <<>>]

\* get_current_day / _week / _month after _make_request:
\* return EnergyChartsResponse.from_api_response(data)
FetchResult(r) ==
  IF r.kind = "raise" THEN r
  ELSE IF from_api_response(r.data).ok
       THEN Return([data_series |-> from_api_response(r.data).data_series])
       ELSE Raise("ValidationError")

(***************************************************************************)
(* State.                                                                  *)
(***************************************************************************)
VARIABLES
  now,                 \* datetime.now(): an index into Dates
  country,             \* the `country` argument of EnergyChartsApiClient
  historical_range,    \* entry.data[CONF_HISTORICAL_RANGE]
  op,                  \* the operation in flight: none, direct, fetch,
                       \* probe (test_connection) or refresh
  pc,                  \* _make_request: idle, get (awaiting session.get),
                       \* json (awaiting response.json()), sleep (awaiting
                       \* asyncio.sleep), returned, raised
  fn,                  \* the method that called _make_request
  url,                 \* _make_request: url
  retries,             \* _make_request: retries
  backoff_factor,      \* _make_request: backoff_factor
  attempt,             \* _make_request: the loop variable
  last_exception,      \* _make_request: last_exception
  outcome,             \* what the latest session.get produced: an
                       \* exception or the server's response
  requests,            \* the session.get calls of this _make_request call
  sleeps,              \* the asyncio.sleep calls of this _make_request call
  result,              \* how _make_request ended
  day_url,             \* the URL get_current_day requested at instant `now`
  week_url,            \* the URL get_current_week requested at instant `now`
  probe_result,        \* what test_connection returned last
  cpc,                 \* _async_update_data: idle, day, history
  structured_data,     \* _async_update_data: the local structured_data
  data,                \* coordinator.data, the live snapshot (<<>> is None)
  last_update_success, \* coordinator.last_update_success
  tick,                \* the latest refresh: its fetch calls, the exception
                       \* of its day fetch, the exception of its history
                       \* fetch, the UpdateFailed it raised, the
                       \* snapshots it returned, whether its task was
                       \* cancelled and whether CancelledError left it
  entry,               \* the config entry: how far its setup or unloading
                       \* is, entry.data[CONF_ENABLE_INDIVIDUAL], whether
                       \* hass.data holds the coordinator, whether the
                       \* sensor platform is set up, and which of
                       \* async_unload_entry and async_update_options is
                       \* suspended at its await
  response_data,       \* from_api_response: the raw JSON list of one poll
  parsed,              \* from_api_response: its outcome (<<>> before)
  snapshot             \* _process_response: its result (<<>> before)

requestVars ==
  <<pc, fn, url, retries, backoff_factor, attempt, last_exception, outcome,
    requests, sleeps, result>>
coordinatorVars == <<cpc, structured_data, data, last_update_success, tick>>
engineVars == <<response_data, parsed, snapshot>>
vars ==
  <<now, country, historical_range, op, requestVars, day_url, week_url,
    probe_result, coordinatorVars, entry, engineVars>>

\* `country` arguments a caller of the client passes
Countries == { <<"d", "e">>, <<"D", "E">>, <<"A", "t">> }

\* entry.data[CONF_COUNTRY]: a key of SUPPORTED_COUNTRIES
EntryCountries == { <<"d", "e">> }

\* test_connection: what it returned and the exception it logged
NoProbe == [returned |-> "none", logged |-> "None"]

NoTick ==
  [fetch_calls |-> 0, day_exc |-> "None", history_exc |-> "None",
   update_failed |-> 0, returned |-> 0,
   cancel_requested |-> FALSE, cancelled |-> FALSE]

\* async_setup_entry has built client and coordinator and awaits
\* coordinator.async_config_entry_first_refresh()
NewEntry ==
  [state |-> "first_refresh", enable_individual_sources |-> TRUE,
   in_hass_data |-> FALSE, platforms |-> FALSE, awaiting |-> "none"]

InitCommon ==
  /\ now = 1
  /\ op = "none"
  /\ pc = "idle"
  /\ fn = "none"
  /\ url = <<>>
  /\ retries = DefaultRetries
  /\ backoff_factor = DefaultBackoffFactor
  /\ attempt = 0
  /\ last_exception = "None"
  /\ outcome = NoOutcome
  /\ requests = <<>>
  /\ sleeps = <<>>
  /\ result = NoResult
  /\ day_url = <<>>
  /\ week_url = <<>>
  /\ probe_result = NoProbe
  /\ cpc = "idle"
  /\ structured_data = <<>>
  /\ data = <<>>
  /\ last_update_success = TRUE
  /\ tick = NoTick
  /\ response_data = <<>>
  /\ parsed = <<>>
  /\ snapshot = <<>>

\* a configured entry: async_setup_entry has built client and coordinator
Init ==
  /\ country \in EntryCountries
  /\ historical_range \in HISTORICAL_RANGE_OPTIONS
  /\ entry \in { [NewEntry EXCEPT !.enable_individual_sources = b] :
                   b \in BOOLEAN }
  /\ InitCommon

\* a client on its own: EnergyChartsApiClient(session, country)
InitClient ==
  /\ country \in Countries
  /\ historical_range = HISTORICAL_RANGE_NONE
  /\ entry = NewEntry
  /\ InitCommon

(***************************************************************************)
(* api.py: _make_request.                                                  *)
(***************************************************************************)
\* a variant without the final `raise EnergyChartsConnectionError(...)`: with
\* retries = 0 the call falls off its end and returns None
MakeRequestWithoutFinalRaise(caller, endpoint, retries_, backoff_factor_) ==
  /\ fn' = caller
  /\ url' = Url(country, endpoint)
  /\ retries' = retries_
  /\ backoff_factor' = backoff_factor_
  /\ attempt' = 0
  /\ last_exception' = "None"
  /\ outcome' = NoOutcome
  /\ sleeps' = <<>>
  /\ IF retries_ > 0
     THEN /\ pc' = "get"
          /\ requests' = <<[url |-> url', timeout |-> AttemptTimeout(0)]>>
          /\ result' = NoResult
     ELSE /\ pc' = "returned"
          /\ requests' = <<>>
          /\ result' = Return(<<>>)

\* the call up to its first await, which is inside the session.get of the
\* first attempt: the session has the request by then.  With retries = 0 the
\* loop body never runs and the call raises the generic
\* EnergyChartsConnectionError
MakeRequest(caller, endpoint, retries_, backoff_factor_) ==
  /\ fn' = caller
  /\ url' = Url(country, endpoint)
  /\ retries' = retries_
  /\ backoff_factor' = backoff_factor_
  /\ attempt' = 0
  /\ last_exception' = "None"
  /\ outcome' = NoOutcome
  /\ sleeps' = <<>>
  /\ IF retries_ > 0
     THEN /\ pc' = "get"
          /\ requests' = <<[url |-> url', timeout |-> AttemptTimeout(0)]>>
          /\ result' = NoResult
     ELSE /\ pc' = "raised"
          /\ requests' = <<>>
          /\ result' = Raise("EnergyChartsConnectionError")

\* the frame is gone once the caller has taken the result
ResetRequest ==
  /\ pc' = "idle"
  /\ fn' = "none"
  /\ url' = <<>>
  /\ retries' = DefaultRetries
  /\ backoff_factor' = DefaultBackoffFactor
  /\ attempt' = 0
  /\ last_exception' = "None"
  /\ outcome' = NoOutcome
  /\ requests' = <<>>
  /\ sleeps' = <<>>
  /\ result' = NoResult

\* a variant that also sleeps after the last attempt
AfterFailureSleepsAfterLast(failure) ==
  /\ sleeps' = Append(sleeps, WaitTime(backoff_factor, attempt))
  /\ IF attempt < retries - 1
     THEN pc' = "sleep" /\ UNCHANGED result
     ELSE pc' = "raised" /\ result' = Raise(failure)

\* a variant without the backoff sleep
AfterFailureNeverSleeps(failure) ==
  /\ UNCHANGED sleeps
  /\ IF attempt < retries - 1
     THEN pc' = "sleep" /\ UNCHANGED result
     ELSE pc' = "raised" /\ result' = Raise(failure)

\* the rest of the iteration after a failure recorded in last_exception:
\* sleep when another attempt follows, else leave the loop and raise
AfterFailure(failure) ==
  IF attempt < retries - 1
  THEN /\ pc' = "sleep"
       /\ sleeps' = Append(sleeps, WaitTime(backoff_factor, attempt))
       /\ UNCHANGED result
  ELSE /\ pc' = "raised"
       /\ result' = Raise(failure)
       /\ UNCHANGED sleeps

\* a variant that treats a 404 as one more retryable failure
AfterTryRetries404(raised) ==
  LET failure == IF ExceptClause(raised) = "EnergyChartsNotFoundError"
                 THEN "EnergyChartsDataError" ELSE ExceptClause(raised)
  IN  /\ last_exception' = failure
      /\ AfterFailure(failure)

\* a variant that keeps the first failure in last_exception
AfterTryKeepsFirstFailure(raised) ==
  IF ExceptClause(raised) = "EnergyChartsNotFoundError"
  THEN /\ pc' = "raised"
       /\ result' = Raise("EnergyChartsNotFoundError")
       /\ UNCHANGED <<last_exception, sleeps>>
  ELSE /\ last_exception' = IF last_exception = "None"
                            THEN ExceptClause(raised) ELSE last_exception
       /\ AfterFailure(last_exception')

\* an exception of class `raised` leaves the try block: the clause for
\* EnergyChartsNotFoundError re-raises it, every other clause records the
\* failure in last_exception and the iteration goes on after the try
\* statement
AfterTry(raised) ==
  IF ExceptClause(raised) = "EnergyChartsNotFoundError"
  THEN /\ pc' = "raised"
       /\ result' = Raise("EnergyChartsNotFoundError")
       /\ UNCHANGED <<last_exception, sleeps>>
  ELSE /\ last_exception' = ExceptClause(raised)
       /\ AfterFailure(ExceptClause(raised))

\* `async with self._session.get(...)` is entered or raises: the coroutine
\* runs on to `await response.json()`, to the backoff sleep or to the raise
SessionGet ==
  /\ pc = "get"
  /\ \E o \in Outcomes :
       /\ outcome' = o
       /\ IF TryGet(o) = "None"
          THEN /\ pc' = "json"
               /\ UNCHANGED <<last_exception, sleeps, result>>
          ELSE AfterTry(TryGet(o))
  /\ UNCHANGED <<now, country, historical_range, entry, engineVars, op, fn,
                 url, retries, backoff_factor, attempt, requests, day_url,
                 week_url, probe_result, coordinatorVars>>

\* `await response.json()` returns the parsed body of the response or
\* raises: the coroutine runs on to `return data`, to the backoff sleep or to
\* the raise
ResponseJson ==
  /\ pc = "json"
  /\ IF TryJson(outcome) = "None"
     THEN /\ pc' = "returned"
          /\ result' = Return(outcome.body.v)
          /\ UNCHANGED <<last_exception, sleeps>>
     ELSE AfterTry(TryJson(outcome))
  /\ UNCHANGED <<now, country, historical_range, entry, engineVars, op, fn,
                 url, retries, backoff_factor, attempt, outcome, requests,
                 day_url, week_url, probe_result, coordinatorVars>>

\* asyncio.sleep(wait_time) returns: the loop starts its next iteration,
\* which runs up to its await inside session.get
SleepDone ==
  /\ pc = "sleep"
  /\ attempt' = attempt + 1
  /\ requests' = Append(requests,
                   [url |-> url, timeout |-> AttemptTimeout(attempt + 1)])
  /\ pc' = "get"
  /\ outcome' = NoOutcome
  /\ UNCHANGED <<now, country, historical_range, entry, engineVars, op, fn,
                 url, retries, backoff_factor, last_exception, sleeps,
                 result, day_url, week_url, probe_result, coordinatorVars>>

Terminated == pc \in {"returned", "raised"}

\* the wall clock moves on to a later instant
ClockAdvance ==
  /\ now < Len(Dates)
  /\ now' = now + 1
  /\ day_url' = <<>>
  /\ week_url' = <<>>
  /\ UNCHANGED <<country, historical_range, entry, engineVars, op,
                 requestVars, probe_result,
                 coordinatorVars>>

(***************************************************************************)
(* api.py: the callers of _make_request.                                   *)
(***************************************************************************)
\* get_current_day up to its first await
GetCurrentDay ==
  /\ MakeRequest("get_current_day", GetCurrentDayEndpoint(Dates[now]),
                 DefaultRetries, DefaultBackoffFactor)
  /\ day_url' = <<url'>>
  /\ UNCHANGED week_url

\* get_current_week up to its first await
GetCurrentWeek ==
  /\ MakeRequest("get_current_week", GetCurrentWeekEndpoint(Dates[now]),
                 DefaultRetries, DefaultBackoffFactor)
  /\ week_url' = <<url'>>
  /\ UNCHANGED day_url

\* get_current_month up to its first await
GetCurrentMonth ==
  /\ MakeRequest("get_current_month", GetCurrentMonthEndpoint(Dates[now]),
                 DefaultRetries, DefaultBackoffFactor)
  /\ UNCHANGED <<day_url, week_url>>

\* the `year`, `week` and `month` arguments a caller passes
SpecificYears == {2019, 2020}
SpecificWeeks == {5, 53}
SpecificMonths == {2, 12}

\* get_specific_week(year, week) up to its first await
GetSpecificWeek ==
  /\ \E year \in SpecificYears, week \in SpecificWeeks :
       MakeRequest("get_specific_week", GetSpecificWeekEndpoint(year, week),
                   DefaultRetries, DefaultBackoffFactor)
  /\ UNCHANGED <<day_url, week_url>>

\* get_specific_month(year, month) up to its first await
GetSpecificMonth ==
  /\ \E year \in SpecificYears, month \in SpecificMonths :
       MakeRequest("get_specific_month",
                   GetSpecificMonthEndpoint(year, month),
                   DefaultRetries, DefaultBackoffFactor)
  /\ UNCHANGED <<day_url, week_url>>

\* a direct call _make_request("day.json", retries, backoff_factor)
DirectCall ==
  /\ op = "none"
  /\ op' = "direct"
  /\ \E r \in 0..MaxRetries, b \in 1..MaxBackoffFactor :
       MakeRequest("_make_request", <<"day.json">>, r, b)
  /\ UNCHANGED <<now, country, historical_range, entry, engineVars, day_url,
                 week_url,
                 probe_result, coordinatorVars>>

\* a call of get_current_day, get_current_week, get_current_month,
\* get_specific_week or get_specific_month
FetchCall ==
  /\ op = "none"
  /\ op' = "fetch"
  /\ \/ GetCurrentDay
     \/ GetCurrentWeek
     \/ GetCurrentMonth
     \/ GetSpecificWeek
     \/ GetSpecificMonth
  /\ UNCHANGED <<now, country, historical_range, entry, engineVars,
                 probe_result,
                 coordinatorVars>>

\* the caller of a direct or fetch call takes the result
CallDone ==
  /\ op \in {"direct", "fetch"}
  /\ Terminated
  /\ op' = "none"
  /\ ResetRequest
  /\ UNCHANGED <<now, country, historical_range, entry, engineVars, day_url,
                 week_url,
                 probe_result, coordinatorVars>>

\* test_connection up to its first await
ProbeStart ==
  /\ op = "none"
  /\ op' = "probe"
  /\ GetCurrentDay
  /\ probe_result' = NoProbe
  /\ UNCHANGED <<now, country, historical_range, entry, engineVars,
                 coordinatorVars>>

\* a variant whose except clause names only the connection, timeout and data
\* errors
ProbeDoneCatchesDocumentedOnly ==
  /\ op = "probe"
  /\ Terminated
  /\ probe_result' =
       IF FetchResult(result).kind = "return"
       THEN [returned |-> "True", logged |-> "None"]
       ELSE IF FetchResult(result).exc \in
                 {"EnergyChartsConnectionError", "EnergyChartsTimeoutError",
                  "EnergyChartsDataError"}
       THEN [returned |-> "False", logged |-> FetchResult(result).exc]
       ELSE [returned |-> "raised", logged |-> "None"]
  /\ op' = "none"
  /\ ResetRequest
  /\ UNCHANGED <<now, country, historical_range, entry, engineVars, day_url,
                 week_url,
                 coordinatorVars>>

\* test_connection: `return True`, or `return False` from `except Exception`
\* after logging the error; "raised" is an exception leaving test_connection
ProbeDone ==
  /\ op = "probe"
  /\ Terminated
  /\ probe_result' =
       IF FetchResult(result).kind = "return"
       THEN [returned |-> "True", logged |-> "None"]
       ELSE [returned |-> "False", logged |-> FetchResult(result).exc]
  /\ op' = "none"
  /\ ResetRequest
  /\ UNCHANGED <<now, country, historical_range, entry, engineVars, day_url,
                 week_url,
                 coordinatorVars>>

(***************************************************************************)
(* coordinator.py: _async_update_data, driven by DataUpdateCoordinator,    *)
(* which stores the returned snapshot in coordinator.data and keeps the    *)
(* previous one when UpdateFailed is raised.                               *)
(***************************************************************************)
\* a variant that stores the coordinator and goes on whatever the first
\* refresh gave
SetupAfterRefreshSwallowsFailure(success) ==
  entry' = IF entry.state = "first_refresh"
           THEN [entry EXCEPT !.state = "forwarding", !.in_hass_data = TRUE]
           ELSE IF entry.state = "forwarding"
           THEN [entry EXCEPT !.state = "loaded", !.platforms = success]
           ELSE entry

\* what the end of a refresh means for the setup of the entry.
\* The refresh async_setup_entry awaits: a failed one raises
\* ConfigEntryNotReady out of async_setup_entry; after a successful one the
\* coordinator is stored in hass.data[DOMAIN] and the setup awaits
\* async_forward_entry_setups.
\* The refresh the sensor platform awaits while the entry is forwarded: after
\* a successful one the platform adds its entities, the update listener is
\* registered and async_setup_entry returns True; a failed one raises
\* ConfigEntryNotReady out of the platform's async_setup_entry, which Home
\* Assistant logs as a failed platform setup while async_setup_entry goes on
\* and returns True.
\* A later refresh leaves the entry alone.
SetupAfterRefresh(success) ==
  entry' = IF entry.state = "first_refresh"
           THEN IF success
                THEN [entry EXCEPT !.state = "forwarding",
                                   !.in_hass_data = TRUE]
                ELSE [entry EXCEPT !.state = "failed"]
           ELSE IF entry.state = "forwarding"
           THEN [entry EXCEPT !.state = "loaded", !.platforms = success]
           ELSE entry

\* async_setup_entry awaits async_forward_entry_setups(entry, PLATFORMS),
\* which runs async_setup_entry of sensor.py: with
\* entry.data[CONF_ENABLE_INDIVIDUAL] (default True) it awaits
\* coordinator.async_config_entry_first_refresh() once more, up to the first
\* await of that refresh; without it the platform adds its entities, the
\* update listener is registered and async_setup_entry returns True
ForwardEntrySetups ==
  /\ entry.state = "forwarding"
  /\ op = "none"
  /\ IF entry.enable_individual_sources
     THEN /\ op' = "refresh"
          /\ cpc' = "day"
          /\ GetCurrentDay
          /\ tick' = [NoTick EXCEPT !.fetch_calls = 1]
          /\ structured_data' = <<>>
          /\ UNCHANGED entry
     ELSE /\ entry' = [entry EXCEPT !.state = "loaded", !.platforms = TRUE]
          /\ UNCHANGED <<op, requestVars, day_url, week_url, cpc, tick,
                         structured_data>>
  /\ UNCHANGED <<now, country, historical_range, probe_result, data,
                 last_update_success, engineVars>>

\* async_setup_entry of __init__.py up to its first await: a new client and
\* a new coordinator (no data yet), then the first refresh up to its first
\* await.  The variables of the coordinator and of its request are from here
\* on those of the new coordinator; a refresh of the former one that is
\* still pending goes on with an object nothing refers to any more.
AsyncSetupEntry ==
  /\ data' = <<>>
  /\ last_update_success' = TRUE
  /\ op' = "refresh"
  /\ cpc' = "day"
  /\ GetCurrentDay
  /\ tick' = [NoTick EXCEPT !.fetch_calls = 1]
  /\ structured_data' = <<>>

\* Home Assistant sets up an entry that was unloaded
SetupEntry ==
  /\ entry.state = "not_loaded"
  /\ entry' = [entry EXCEPT !.state = "first_refresh"]
  /\ AsyncSetupEntry
  /\ UNCHANGED <<now, country, historical_range, probe_result, engineVars>>

\* async_unload_entry up to its await of async_unload_platforms: nothing has
\* changed yet, and a refresh may be pending or may start meanwhile
UnloadEntry ==
  /\ entry.state = "loaded"
  /\ entry.awaiting = "none"
  /\ entry' = [entry EXCEPT !.awaiting = "async_unload_entry"]
  /\ UNCHANGED <<now, country, historical_range, op, requestVars, day_url,
                 week_url, probe_result, coordinatorVars, engineVars>>

\* what async_unload_entry does when async_unload_platforms has returned
\* unload_ok: after True the platform is unloaded and the coordinator is
\* popped from hass.data[DOMAIN]; unload_ok is returned
AfterUnloadPlatforms(unload_ok) ==
  IF unload_ok
  THEN [entry EXCEPT !.state = "not_loaded", !.in_hass_data = FALSE,
                     !.platforms = FALSE, !.awaiting = "none"]
  ELSE [entry EXCEPT !.state = "failed_unload", !.awaiting = "none"]

\* async_unload_platforms returns and async_unload_entry runs to its end; a
\* refresh that is pending stays pending
UnloadEntryResume ==
  /\ entry.awaiting = "async_unload_entry"
  /\ \E unload_ok \in BOOLEAN : entry' = AfterUnloadPlatforms(unload_ok)
  /\ UNCHANGED <<now, country, historical_range, op, requestVars, day_url,
                 week_url, probe_result, coordinatorVars, engineVars>>

\* async_update_options, the update listener of a loaded entry, up to the
\* first await inside hass.config_entries.async_reload(entry.entry_id): the
\* reload calls async_unload_entry, which awaits async_unload_platforms
UpdateOptions ==
  /\ entry.state = "loaded"
  /\ entry.awaiting = "none"
  /\ entry' = [entry EXCEPT !.awaiting = "async_update_options"]
  /\ UNCHANGED <<now, country, historical_range, op, requestVars, day_url,
                 week_url, probe_result, coordinatorVars, engineVars>>

\* async_unload_platforms returns inside the reload: async_unload_entry
\* ends and, when it returned True, the reload sets the entry up again:
\* async_setup_entry up to its first await
UpdateOptionsResume ==
  /\ entry.awaiting = "async_update_options"
  /\ \E unload_ok \in BOOLEAN :
       IF unload_ok
       THEN /\ entry' = [AfterUnloadPlatforms(TRUE)
                           EXCEPT !.state = "first_refresh"]
            /\ AsyncSetupEntry
       ELSE /\ entry' = AfterUnloadPlatforms(FALSE)
            /\ UNCHANGED <<op, requestVars, day_url, week_url,
                           coordinatorVars>>
  /\ UNCHANGED <<now, country, historical_range, probe_result, engineVars>>

\* a refresh: the first one, awaited by async_setup_entry, or a later tick of
\* the loaded entry; _async_update_data up to its first await
RefreshStart ==
  /\ op = "none"
  /\ entry.state \in {"first_refresh", "loaded"}
  /\ UNCHANGED entry
  /\ op' = "refresh"
  /\ cpc' = "day"
  /\ GetCurrentDay
  /\ tick' = [NoTick EXCEPT !.fetch_calls = 1]
  /\ structured_data' = <<>>
  /\ UNCHANGED <<now, country, historical_range, engineVars, probe_result, data,
                 last_update_success>>

\* a variant that calls get_current_day once more after the failure
RefreshDayFailedFetchesAgain ==
  /\ op = "refresh"
  /\ cpc = "day"
  /\ Terminated
  /\ FetchResult(result).kind = "raise"
  /\ IF tick.fetch_calls < 2
     THEN /\ GetCurrentDay
          /\ tick' = [tick EXCEPT !.fetch_calls = @ + 1]
          /\ UNCHANGED <<op, cpc, last_update_success, entry>>
     ELSE /\ tick' = [tick EXCEPT !.day_exc = FetchResult(result).exc,
                                  !.update_failed = @ + 1]
          /\ last_update_success' = FALSE
          /\ SetupAfterRefresh(FALSE)
          /\ cpc' = "idle"
          /\ op' = "none"
          /\ ResetRequest
          /\ UNCHANGED <<day_url, week_url>>
  /\ structured_data' = <<>>
  /\ UNCHANGED <<now, country, historical_range, engineVars, probe_result,
                 data>>

\* get_current_day raised: one of the except clauses raises UpdateFailed
RefreshDayFailed ==
  /\ op = "refresh"
  /\ cpc = "day"
  /\ Terminated
  /\ FetchResult(result).kind = "raise"
  /\ tick' = [tick EXCEPT !.day_exc = FetchResult(result).exc,
                          !.update_failed = @ + 1]
  /\ last_update_success' = FALSE
  /\ SetupAfterRefresh(FALSE)
  /\ cpc' = "idle"
  /\ op' = "none"
  /\ structured_data' = <<>>
  /\ ResetRequest
  /\ UNCHANGED <<now, country, historical_range, engineVars, day_url, week_url,
                 probe_result, data>>

\* get_current_day returned and no historical range is configured:
\* _process_response, return structured_data
RefreshDayPublish ==
  /\ op = "refresh"
  /\ cpc = "day"
  /\ Terminated
  /\ FetchResult(result).kind = "return"
  /\ historical_range = HISTORICAL_RANGE_NONE
  /\ data' = <<process_response(FetchResult(result).data, Dates[now])>>
  /\ tick' = [tick EXCEPT !.returned = @ + 1]
  /\ last_update_success' = TRUE
  /\ SetupAfterRefresh(TRUE)
  /\ cpc' = "idle"
  /\ op' = "none"
  /\ structured_data' = <<>>
  /\ ResetRequest
  /\ UNCHANGED <<now, country, historical_range, engineVars, day_url, week_url,
                 probe_result>>

\* a variant that stores the snapshot before the history fetch has ended
RefreshDayThenHistoryPublishesEarly ==
  /\ op = "refresh"
  /\ cpc = "day"
  /\ Terminated
  /\ FetchResult(result).kind = "return"
  /\ historical_range # HISTORICAL_RANGE_NONE
  /\ structured_data' =
       <<process_response(FetchResult(result).data, Dates[now])>>
  /\ data' = structured_data'
  /\ cpc' = "history"
  /\ IF historical_range = "day" THEN GetCurrentDay
     ELSE IF historical_range = "week" THEN GetCurrentWeek
     ELSE GetCurrentMonth
  /\ tick' = [tick EXCEPT !.fetch_calls = @ + 1]
  /\ UNCHANGED <<now, country, historical_range, entry, engineVars, op,
                 probe_result, last_update_success>>

\* get_current_day returned and a historical range is configured:
\* _process_response, then _fetch_historical_data up to its first await
RefreshDayThenHistory ==
  /\ op = "refresh"
  /\ cpc = "day"
  /\ Terminated
  /\ FetchResult(result).kind = "return"
  /\ historical_range # HISTORICAL_RANGE_NONE
  /\ structured_data' =
       <<process_response(FetchResult(result).data, Dates[now])>>
  /\ cpc' = "history"
  /\ IF historical_range = "day" THEN GetCurrentDay
     ELSE IF historical_range = "week" THEN GetCurrentWeek
     ELSE GetCurrentMonth
  /\ tick' = [tick EXCEPT !.fetch_calls = @ + 1]
  /\ UNCHANGED <<now, country, historical_range, entry, engineVars, op,
                 probe_result, data, last_update_success>>

\* _fetch_historical_data after its fetch: the history it returns
FetchedHistory(r) ==
  IF FetchResult(r).kind = "return"
  THEN HistoryLoop(FetchResult(r).data.data_series, <<>>)
  ELSE <<>>

\* _fetch_historical_data returns: its `except Exception` has swallowed a
\* failure of the fetch (and of the conversion loop) after logging a warning;
\* structured_data["history"] is set and structured_data is returned
RefreshHistoryDone ==
  /\ op = "refresh"
  /\ cpc = "history"
  /\ Terminated
  /\ data' = <<[structured_data[1] EXCEPT !.history = FetchedHistory(result)]>>
  /\ tick' = [tick EXCEPT
                !.history_exc = IF FetchResult(result).kind = "raise"
                                THEN FetchResult(result).exc ELSE "None",
                !.returned = @ + 1]
  /\ last_update_success' = TRUE
  /\ SetupAfterRefresh(TRUE)
  /\ cpc' = "idle"
  /\ op' = "none"
  /\ structured_data' = <<>>
  /\ ResetRequest
  /\ UNCHANGED <<now, country, historical_range, engineVars, day_url, week_url,
                 probe_result>>

\* where a CancelledError thrown into the pending await of the refresh
\* ends up: "retry" when an except clause of _make_request takes it for a
\* failed attempt (the two awaits of an attempt are inside the try
\* statement, the sleep is outside), "published" when
\* the `except Exception` of _fetch_historical_data swallows it,
\* "update_failed" when the `except Exception` of _async_update_data turns
\* it into UpdateFailed, "cancelled" when it leaves _async_update_data
CancelOutcome ==
  IF pc \in {"get", "json"} /\ ExceptClause("asyncio.CancelledError")
                                 # "asyncio.CancelledError"
  THEN "retry"
  ELSE IF ~IsException("asyncio.CancelledError") THEN "cancelled"
  ELSE IF cpc = "history" THEN "published"
  ELSE "update_failed"

\* the scheduler cancels the task of the refresh while it awaits
\* session.get, response.json() or asyncio.sleep: CancelledError is raised
\* at that await
RefreshCancelled ==
  /\ op = "refresh"
  /\ pc \in {"get", "json", "sleep"}
  /\ ~tick.cancel_requested
  /\ CASE CancelOutcome = "retry" ->
            /\ last_exception' = ExceptClause("asyncio.CancelledError")
            /\ AfterFailure(last_exception')
            /\ outcome' = NoOutcome
            /\ tick' = [tick EXCEPT !.cancel_requested = TRUE]
            /\ UNCHANGED <<op, cpc, fn, url, retries, backoff_factor, attempt,
                           requests, structured_data, data,
                           last_update_success, entry>>
       [] CancelOutcome = "cancelled" ->
            /\ tick' = [tick EXCEPT !.cancel_requested = TRUE,
                                    !.cancelled = TRUE]
            /\ entry' = IF entry.state \in {"first_refresh", "forwarding"}
                        THEN [entry EXCEPT !.state = "cancelled"]
                        ELSE entry
            /\ op' = "none"
            /\ cpc' = "idle"
            /\ structured_data' = <<>>
            /\ ResetRequest
            /\ UNCHANGED <<data, last_update_success>>
       [] CancelOutcome = "published" ->
            /\ tick' = [tick EXCEPT !.cancel_requested = TRUE,
                                    !.history_exc = "asyncio.CancelledError",
                                    !.returned = @ + 1]
            /\ data' = <<[structured_data[1] EXCEPT !.history = <<>>]>>
            /\ last_update_success' = TRUE
            /\ SetupAfterRefresh(TRUE)
            /\ op' = "none"
            /\ cpc' = "idle"
            /\ structured_data' = <<>>
            /\ ResetRequest
       [] CancelOutcome = "update_failed" ->
            /\ tick' = [tick EXCEPT !.cancel_requested = TRUE,
                                    !.day_exc = "asyncio.CancelledError",
                                    !.update_failed = @ + 1]
            /\ last_update_success' = FALSE
            /\ SetupAfterRefresh(FALSE)
            /\ op' = "none"
            /\ cpc' = "idle"
            /\ structured_data' = <<>>
            /\ ResetRequest
            /\ UNCHANGED data
  /\ UNCHANGED <<now, country, historical_range, engineVars, day_url, week_url,
                 probe_result>>

(***************************************************************************)
(* One polled response through the normalizer and the aggregation engine.  *)
(***************************************************************************)
\* the server's JSON list grows by one object
ServerItem ==
  /\ parsed = <<>>
  /\ Len(response_data) < MaxItems
  /\ \E item \in RawItems : response_data' = Append(response_data, item)
  /\ UNCHANGED <<now, country, historical_range, op, requestVars, day_url,
                 week_url, probe_result, coordinatorVars, entry, parsed,
                 snapshot>>

\* the server's JSON list grows by one object of the production series
ServerGroupItem ==
  /\ parsed = <<>>
  /\ Len(response_data) < MaxItems
  /\ \E item \in GroupItems : response_data' = Append(response_data, item)
  /\ UNCHANGED <<now, country, historical_range, op, requestVars, day_url,
                 week_url, probe_result, coordinatorVars, entry, parsed,
                 snapshot>>

\* EnergyChartsResponse.from_api_response(response_data)
FromApiResponse ==
  /\ parsed = <<>>
  /\ parsed' = <<from_api_response(response_data)>>
  /\ UNCHANGED <<now, country, historical_range, op, requestVars, day_url,
                 week_url, probe_result, coordinatorVars, entry,
                 response_data, snapshot>>

\* _process_response(response) on the response from_api_response returned
ProcessResponse ==
  /\ parsed # <<>>
  /\ parsed[1].ok
  /\ snapshot = <<>>
  /\ snapshot' =
       <<process_response([data_series |-> parsed[1].data_series],
                          Dates[now])>>
  /\ UNCHANGED <<now, country, historical_range, op, requestVars, day_url,
                 week_url, probe_result, coordinatorVars, entry,
                 response_data, parsed>>

(***************************************************************************)
(* Specifications.                                                         *)
(***************************************************************************)
\* the configured integration: the setup, the unloading and the reload of
\* the entry and the refreshes of its coordinator, all at one instant of the
\* wall clock (what a later instant does to the endpoints is the matter of
\* SpecClient)
Next ==
  \/ RefreshStart
  \/ RefreshDayFailed
  \/ RefreshDayPublish
  \/ RefreshDayThenHistory
  \/ RefreshHistoryDone
  \/ RefreshCancelled
  \/ ForwardEntrySetups
  \/ SetupEntry
  \/ UnloadEntry
  \/ UnloadEntryResume
  \/ UpdateOptions
  \/ UpdateOptionsResume
  \/ SessionGet
  \/ ResponseJson
  \/ SleepDone

Spec == Init /\ [][Next]_vars

\* the fetch client on its own: direct calls, fetches and probes
NextClient ==
  \/ DirectCall
  \/ FetchCall
  \/ CallDone
  \/ ProbeStart
  \/ ProbeDone
  \/ SessionGet
  \/ ResponseJson
  \/ SleepDone
  \/ ClockAdvance

SpecClient == InitClient /\ [][NextClient]_vars

\* one polled response: the raw list, its normalization, its aggregation
InitPoll ==
  /\ country \in EntryCountries
  /\ historical_range = HISTORICAL_RANGE_NONE
  /\ entry = NewEntry
  /\ InitCommon

NextPoll ==
  \/ ServerItem
  \/ FromApiResponse
  \/ ProcessResponse

SpecPoll == InitPoll /\ [][NextPoll]_vars

\* one polled response of the production series
NextGroups ==
  \/ ServerGroupItem
  \/ FromApiResponse
  \/ ProcessResponse

SpecGroups == InitPoll /\ [][NextGroups]_vars

(***************************************************************************)
(* Properties of the fetch client (checked under SpecClient).              *)
(***************************************************************************)
RetryableFailures ==
  {"EnergyChartsTimeoutError", "EnergyChartsConnectionError",
   "EnergyChartsDataError"}

\* the latest attempt of the call in progress got an HTTP response
GotResponse == outcome.t = "response"

\* the latest attempt is over: it is not waiting for the body of its response
AttemptOver == outcome.t # "none" /\ pc # "json"

\* C1: an HTTP 404 on any attempt raises EnergyChartsNotFoundError at once:
\* the call is over with that failure, whatever failure earlier attempts
\* recorded, the 404 was the last request and no sleep follows it (the only
\* sleeps are those between the attempts before it).
C1_NotFoundRaisesImmediately ==
  (GotResponse /\ outcome.status = 404) =>
    /\ pc = "raised"
    /\ result = Raise("EnergyChartsNotFoundError")
    /\ Len(requests) = attempt + 1
    /\ Len(sleeps) = attempt

\* C1 witness: a 404 on the third attempt, after a recorded retryable failure
C1_Witness ==
  /\ GotResponse /\ outcome.status = 404
  /\ attempt = 2
  /\ last_exception \in RetryableFailures
  /\ result = Raise("EnergyChartsNotFoundError")

\* C2 as stated: when attempt k+1 (after k failed attempts) receives a
\* non-404 response whose body is a list, the call returns that body's data
\* after exactly k+1 requests and k sleeps.
C2_NonNotFoundListReturns ==
  (GotResponse /\ AttemptOver /\ outcome.status # 404
     /\ outcome.body.json = "list") =>
    /\ pc = "returned"
    /\ result = Return(outcome.body.v)
    /\ Len(requests) = attempt + 1
    /\ Len(sleeps) = attempt

\* C2 amended: when attempt k+1 (after k failed attempts) receives a response
\* with a status below 400 whose JSON body is a list, the call returns that
\* body's data after exactly k+1 requests and k sleeps, and is over.
C2_SuccessListReturns ==
  (GotResponse /\ AttemptOver /\ outcome.status < 400
     /\ outcome.body.json = "list") =>
    /\ pc = "returned"
    /\ result = Return(outcome.body.v)
    /\ Len(requests) = attempt + 1
    /\ Len(sleeps) = attempt

\* C2 witness: success on the third attempt after two failures and two sleeps
C2_Witness ==
  /\ GotResponse /\ outcome.status = 200 /\ outcome.body.json = "list"
  /\ pc = "returned"
  /\ result = Return(PayloadA)
  /\ last_exception = "EnergyChartsTimeoutError"
  /\ Len(requests) = 3
  /\ Len(sleeps) = 2

\* C3: a sleep happens only between two attempts (none before the first
\* request, none after the last), and a call whose attempts all failed with
\* a retryable failure ends raising after exactly `retries` requests and
\* retries - 1 sleeps.
C3_ExhaustionIsBounded ==
  /\ pc \in {"get", "json"} =>
       Len(requests) = attempt + 1 /\ Len(sleeps) = attempt
  /\ pc = "sleep" =>
       /\ Len(requests) = attempt + 1
       /\ Len(sleeps) = attempt + 1
       /\ Len(requests) < retries
  /\ (pc = "raised" /\ retries > 0 /\ result.exc \in RetryableFailures) =>
       /\ result.kind = "raise"
       /\ Len(requests) = retries
       /\ Len(sleeps) = retries - 1

\* C3 witness: the default budget exhausted: three requests, two sleeps
C3_Witness ==
  /\ pc = "raised"
  /\ retries = DefaultRetries
  /\ result.exc \in RetryableFailures
  /\ Len(requests) = 3
  /\ Len(sleeps) = 2

\* C4: once the attempts are exhausted, the failure raised is the
\* classification of the last attempt's failure.
C4_LastFailureIsRaised ==
  (pc = "raised" /\ retries > 0 /\ Len(requests) = retries
     /\ AttemptFailure(outcome) \in RetryableFailures) =>
    result = Raise(AttemptFailure(outcome))

\* C4 witness: three attempts, the last one a malformed body: data failure
C4_Witness ==
  /\ pc = "raised"
  /\ Len(requests) = 3
  /\ outcome.status = 200 /\ outcome.body.json = "dict"
  /\ result = Raise("EnergyChartsDataError")

\* C5: the i-th request (i from 1) has timeout API_TIMEOUT * i, and the i-th
\* sleep (after failed attempt i) lasts backoff_factor * 2^(i-1).
C5_TimeoutsAndBackoff ==
  /\ \A i \in 1..Len(requests) : requests[i].timeout = API_TIMEOUT * i
  /\ \A i \in 1..Len(sleeps) : sleeps[i] = backoff_factor * (2 ^ (i - 1))

\* C5 witness: the defaults: timeouts 30, 60, 90 and sleeps of 1 and 2
C5_Witness ==
  /\ backoff_factor = DefaultBackoffFactor
  /\ Len(requests) = 3
  /\ requests[1].timeout = 30 /\ requests[2].timeout = 60
  /\ requests[3].timeout = 90
  /\ sleeps = <<1, 2>>

\* the failure kind the classification table assigns to an outcome
ExpectedFailure(o) ==
  IF o.t = "response" /\ o.status = 404 THEN "EnergyChartsNotFoundError"
  ELSE IF o.t = "TimeoutError" THEN "EnergyChartsTimeoutError"
  ELSE IF o.t = "ClientError" \/ o.status >= 400
          \/ o.body.json = "content_type"
  THEN "EnergyChartsConnectionError"
  ELSE IF o.body.json # "list" THEN "EnergyChartsDataError"
  ELSE "None"

\* C6: each failed attempt gets exactly one failure kind by the precedence
\* 404, timeout, other transport error or HTTP error status, then malformed
\* body or unexpected exception; not-found ends the call, the other three
\* are recorded in last_exception and the loop goes on to the next attempt
\* (or, after the last attempt, raises the recorded failure).
C6_Classification ==
  AttemptOver =>
    LET expected == ExpectedFailure(outcome)
    IN  /\ expected = "None" => pc = "returned"
        /\ expected = "EnergyChartsNotFoundError" =>
             pc = "raised" /\ result = Raise(expected)
        /\ expected \in RetryableFailures =>
             /\ last_exception = expected
             /\ attempt < retries - 1 => pc = "sleep"
             /\ attempt >= retries - 1 =>
                  pc = "raised" /\ result = Raise(expected)

\* C6 witness: an HTTP 500 on the first attempt is a connection failure and
\* the loop goes on
C6_Witness ==
  /\ GotResponse /\ outcome.status = 500
  /\ attempt = 0
  /\ last_exception = "EnergyChartsConnectionError"
  /\ pc = "sleep"

\* the URL of the current ISO week's endpoint for the client's country
WeekUrl(c, dt) ==
  <<API_BASE_URL, "/">> \o Lower(c) \o <<"/", "week_">>
    \o Str(IsoCalendar(dt)[1]) \o <<"_">>
    \o (IF IsoCalendar(dt)[2] < 10 THEN <<"0">> ELSE <<>>)
    \o Str(IsoCalendar(dt)[2]) \o <<".json">>

\* C7: at one instant, get_current_day and get_current_week of one client
\* request the same URL: base URL, lower-cased country code and
\* week_<ISO year>_<two-digit ISO week>.json.
C7_DayAndWeekSameEndpoint ==
  /\ day_url # <<>> => day_url[1] = WeekUrl(country, Dates[now])
  /\ week_url # <<>> => week_url[1] = WeekUrl(country, Dates[now])
  /\ (day_url # <<>> /\ week_url # <<>>) => day_url = week_url

\* C7 witness: both requested on 2024-12-30 (ISO week 1 of 2025) by a client
\* built with an upper-case country code
C7_Witness ==
  /\ now = 1
  /\ country = <<"D", "E">>
  /\ day_url # <<>>
  /\ week_url = day_url

\* C8: test_connection returns True exactly when get_current_day returns a
\* snapshot and False for every failure of it, and never lets one escape.
C8_ProbeIsBoolean ==
  [][ (op = "probe" /\ op' = "none") =>
        /\ probe_result'.returned \in {"True", "False"}
        /\ probe_result'.returned = "True" <=>
             (result.kind = "return" /\ from_api_response(result.data).ok)
    ]_vars

\* C8 witness: a probe that returned False because parsing the response
\* raised
C8_Witness ==
  probe_result = [returned |-> "False", logged |-> "ValidationError"]

(***************************************************************************)
(* Properties of the coordinator (checked under Spec).                     *)
(***************************************************************************)
\* the step in which async_setup_entry builds a new coordinator for an
\* entry that is set up again: it has no snapshot before its first refresh,
\* and its first refresh takes the place of whatever the former coordinator
\* was doing
NewCoordinator ==
  /\ entry.state \in {"loaded", "not_loaded"}
  /\ entry'.state = "first_refresh"
  /\ data' = <<>>

\* the day fetch of the refresh in progress has surfaced a failure
DayFetchFailed ==
  /\ op = "refresh"
  /\ cpc = "day"
  /\ Terminated
  /\ FetchResult(result).kind = "raise"

\* C9: when the day fetch of a refresh surfaces any failure, the coordinator's
\* next step ends the refresh: exactly one UpdateFailed, no snapshot
\* returned, the live snapshot untouched, and no fetch call beyond the one
\* that failed.  (A step in which a reload or a new setup puts a new
\* coordinator in its place is no step of that coordinator.)
C9_DayFailureIsOneUpdateFailed ==
  [][ (DayFetchFailed /\ ~NewCoordinator
         /\ <<op, cpc, pc, tick>> # <<op', cpc', pc', tick'>>) =>
        /\ op' = "none"
        /\ pc' = "idle"
        /\ tick' = [NoTick EXCEPT !.fetch_calls = 1,
                                   !.day_exc = FetchResult(result).exc,
                                   !.update_failed = 1]
        /\ last_update_success' = FALSE
        /\ data' = data
    ]_vars

\* C9 witness: a refresh ended by a 404 of the day fetch, which the
\* coordinator's generic except clause turns into UpdateFailed
C9_Witness ==
  /\ op = "none"
  /\ tick = [NoTick EXCEPT !.fetch_calls = 1,
                            !.day_exc = "EnergyChartsNotFoundError",
                            !.update_failed = 1]
  /\ last_update_success = FALSE

\* a snapshot whose sources, aggregated and categories are all filled in
\* from its one raw response
Complete(s) ==
  /\ DOMAIN s = {"timestamp", "raw_response", "sources", "aggregated",
                 "categories", "history", "forecasts"}
  /\ s.sources = BuildSources(s.raw_response.data_series)
  /\ s.aggregated = calculate_aggregated(s.sources)
  /\ s.categories = calculate_categories(s.sources)

\* C10: the live snapshot of a coordinator changes only in the step in which
\* a refresh returns its finished snapshot, and it is then complete; so a
\* reader sees the previous snapshot throughout a refresh, never a partly
\* built one, and a refresh that fails leaves the snapshot of the last
\* successful one.
C10_SnapshotReplacedAtomically ==
  [][ /\ (data' # data /\ ~NewCoordinator) =>
           /\ op = "refresh" /\ op' = "none"
           /\ tick'.returned = 1 /\ tick'.update_failed = 0
           /\ last_update_success'
           /\ Complete(data'[1])
      /\ tick'.update_failed > tick.update_failed => data' = data
    ]_vars

\* C10 witness: a refresh has built its new snapshot and is fetching the
\* history, while the live snapshot is still the one of an earlier success
\* that a failed refresh left in place
C10_Witness ==
  /\ op = "refresh"
  /\ cpc = "history"
  /\ data # <<>>
  /\ last_update_success = FALSE
  /\ structured_data # data
  /\ structured_data[1].raw_response # data[1].raw_response

(***************************************************************************)
(* Properties of the entry setup (checked under Spec).                     *)
(***************************************************************************)
\* C11: when the first refresh of a configured entry fails, async_setup_entry
\* does not complete: the failure leaves the setup (state "failed"), the
\* coordinator is not stored in hass.data and the sensor platform is not set
\* up, then or later; an entry whose coordinator is stored or whose platform
\* is set up (so also a ready entry showing stale data after a failed
\* refresh) has had at least one successful refresh.
C11_FirstRefreshFailureAbortsSetup ==
  /\ [](/\ entry.state = "failed" =>
             ~entry.in_hass_data /\ ~entry.platforms /\ data = <<>>
        /\ (entry.in_hass_data \/ entry.platforms
              \/ entry.state \in {"forwarding", "loaded"}) => data # <<>>)
  /\ [][ /\ (entry.state = "first_refresh"
               /\ tick'.update_failed > tick.update_failed) =>
                entry'.state = "failed"
         /\ entry.state = "failed" => entry' = entry
       ]_vars

\* C11 witness: the first refresh raised UpdateFailed and the setup is over
\* without a stored coordinator
C11_Witness ==
  /\ entry.state = "failed"
  /\ tick.update_failed = 1
  /\ tick.day_exc = "EnergyChartsTimeoutError"
  /\ ~entry.in_hass_data

(***************************************************************************)
(* Properties of the normalizer and the aggregation engine (checked under  *)
(* SpecPoll).                                                              *)
(***************************************************************************)
\* the positions of the raw objects that have a "name" and a "data" key
KeptIndices(items) ==
  { i \in 1..Len(items) :
      "name" \in DOMAIN items[i] /\ "data" \in DOMAIN items[i] }

\* the j-th smallest element of a set of positions
NthOf(S, j) == CHOOSE i \in S : Cardinality({ k \in S : k <= i }) = j

\* a name field in one of the two shapes the API documents
WellFormedName(v) ==
  v.t = "dict" \/ (v.t = "list" /\ Len(v.v) > 0 /\ v.v[1].t = "dict")

\* the mapping a raw name field stands for
RawNameMapping(v) ==
  IF v.t = "dict" THEN v.v
  ELSE IF v.t = "list" /\ Len(v.v) > 0 /\ v.v[1].t = "dict" THEN v.v[1].v
  ELSE <<>>

\* C12: from_api_response drops exactly the raw objects that lack "name" or
\* lack "data" and keeps every other object as one series, in the original
\* order: when every object with both keys is well formed the call succeeds
\* whatever skipped objects the batch holds, an error never comes without
\* a kept object whose name is a list, and the series of a successful call
\* are the kept objects one for one (data, color, name, shared time axis).
C12_SkipsExactlyIncomplete ==
  (parsed # <<>> /\ snapshot = <<>>) =>
    LET kept == KeptIndices(response_data)
        ds == parsed[1].data_series
    IN  /\ (\A i \in kept : WellFormedName(response_data[i].name)) =>
             parsed[1].ok
        /\ ~parsed[1].ok => \E i \in kept : response_data[i].name.t = "list"
        /\ parsed[1].ok =>
             /\ Len(ds) = Cardinality(kept)
             /\ \A j \in 1..Len(ds) :
                  LET item == response_data[NthOf(kept, j)]
                  IN  /\ ds[j].data = item.data
                      /\ ds[j].name = RawNameMapping(item.name)
                      /\ ds[j].color = IF "color" \in DOMAIN item
                                       THEN item.color ELSE "#000000"
                      /\ ds[j].timestamps =
                           IF "xAxisValues" \in DOMAIN response_data[1]
                           THEN response_data[1].xAxisValues ELSE <<>>

\* C12 witness: a metadata object, a series and an object without data give
\* exactly the one series, on the metadata object's time axis
C12_Witness ==
  /\ response_data = <<ItemMeta, ItemFossilGas, ItemNoData>>
  /\ parsed # <<>>
  /\ parsed[1].ok
  /\ Len(parsed[1].data_series) = 1
  /\ parsed[1].data_series[1].data = << <<20>> >>
  /\ parsed[1].data_series[1].timestamps = <<1000, 2000, 3000>>

\* the mapping the name field normalizes to as C13 has it
ClaimedNameMapping(v) ==
  IF v.t = "dict" THEN v.v
  ELSE IF v.t = "list" /\ Len(v.v) = 1 /\ v.v[1].t = "dict" THEN v.v[1].v
  ELSE <<>>

\* C13: a one-element list holding a mapping normalizes to that mapping, a
\* mapping to itself and every other shape of the name field (empty list,
\* list whose first element is not a mapping, string, number, null) to the
\* empty mapping: building the series never fails on the name field, and a
\* series without an English or German name shows "Unknown" / "Unbekannt".
C13_NameNormalization ==
  parsed # <<>> =>
    LET kept == KeptIndices(response_data)
        ds == parsed[1].data_series
    IN  /\ parsed[1].ok
        /\ Len(ds) = Cardinality(kept)
        /\ \A j \in 1..Len(ds) :
             LET claimed ==
                   ClaimedNameMapping(response_data[NthOf(kept, j)].name)
             IN  /\ ds[j].name = claimed
                 /\ "en" \notin DOMAIN claimed => name_en(ds[j]) = N_Unknown
                 /\ "de" \notin DOMAIN claimed => name_de(ds[j]) = N_Unbekannt

\* the key of an English display name as C14 describes it, character by
\* character: parentheses and commas go; a run of spaces, slashes, hyphens
\* and underscores between two other characters becomes one underscore, a
\* run at either end goes; every other character is kept in lower case
ClaimedKey(name) ==
  LET s == SelectSeq(Lower(name), LAMBDA c : c \notin {"(", ")", ","})
      isSep(i) == s[i] \in {" ", "/", "-", "_"}
      \* what position i contributes: its character, one underscore, nothing
      at == [ i \in 1..Len(s) |->
                IF ~isSep(i) THEN s[i]
                ELSE IF /\ i > 1
                        /\ ~isSep(i - 1)
                        /\ \E k \in (i + 1)..Len(s) : ~isSep(k)
                THEN "_"
                ELSE "" ]
  IN  SelectSeq(at, LAMBDA c : c # "")

\* the English display name of a raw name field, "Unknown" when absent
EnglishName(v) ==
  IF "en" \in DOMAIN RawNameMapping(v) THEN RawNameMapping(v)["en"]
  ELSE N_Unknown

\* C14: the key of a series is a function of its English display name alone
\* ("Unknown" when there is none): lower-cased, spaces, slashes and hyphens
\* turned into underscores, parentheses and commas deleted, repeated
\* underscores collapsed, underscores at the ends trimmed; two series with
\* the same English name have the same key whatever else differs.
C14_KeyFromEnglishName ==
  (parsed # <<>> /\ parsed[1].ok /\ snapshot = <<>>) =>
    LET kept == KeptIndices(response_data)
        ds == parsed[1].data_series
    IN  \A j \in 1..Len(ds) :
          key(ds[j]) =
            ClaimedKey(EnglishName(response_data[NthOf(kept, j)].name))

\* C14 witness: "Fossil brown coal / lignite" gives fossil_brown_coal_lignite
\* and the name with parentheses, a hyphen and separators at both ends
\* gives load_incl._self_consumption
C14_Witness ==
  /\ parsed # <<>>
  /\ parsed[1].ok
  /\ Len(parsed[1].data_series) = 2
  /\ name_en(parsed[1].data_series[1]) = N_Brown_coal
  /\ key(parsed[1].data_series[1]) = K_fossil_brown_coal_lignite
  /\ name_en(parsed[1].data_series[2]) = N_Load
  /\ key(parsed[1].data_series[2]) =
       <<"l", "o", "a", "d", "_", "i", "n", "c", "l", ".", "_", "s", "e",
         "l", "f", "_", "c", "o", "n", "s", "u", "m", "p", "t", "i", "o",
         "n">>

\* C15: latest_value is the entry at the last position that holds a value,
\* and absent when no position does (empty sequence, or absent values only);
\* a last value of 0 is returned, not passed over.
C15_LatestValue ==
  (parsed # <<>> /\ parsed[1].ok /\ snapshot = <<>>) =>
    \A j \in 1..Len(parsed[1].data_series) :
      LET d == parsed[1].data_series[j].data
          present == { i \in 1..Len(d) : d[i] # <<>> }
          v == latest_value(parsed[1].data_series[j])
      IN  /\ present = {} => v = <<>>
          /\ present # {} =>
               v = d[CHOOSE i \in present : \A k \in present : k <= i]

\* C15 witness: [5, null, null] gives 5, [4, 0] gives 0, [null, null] gives
\* absent
C15_Witness ==
  /\ parsed # <<>>
  /\ parsed[1].ok
  /\ response_data = <<ItemWindOnshore, ItemBrownCoal, ItemNuclear>>
  /\ latest_value(parsed[1].data_series[1]) = <<5>>
  /\ latest_value(parsed[1].data_series[2]) = <<0>>
  /\ latest_value(parsed[1].data_series[3]) = <<>>

\* the sum of the values of the records of `sources` under the keys in S
RECURSIVE SumOfValues(_, _)
SumOfValues(S, sources) ==
  IF S = {} THEN 0
  ELSE LET k == CHOOSE x \in S : TRUE
       IN  sources[k].value[1] + SumOfValues(S \ {k}, sources)

\* the records of a snapshot that have a value
WithValue(sources) == { k \in DOMAIN sources : sources[k].value # <<>> }

\* C16: total_production is the sum of the values that are present and
\* positive, whatever the category; total_renewable, total_fossil and
\* total_nuclear are the sums of the present values (negative ones too) of
\* the records of that category; a record without a value adds nothing.
C16_Totals ==
  snapshot # <<>> =>
    LET src == snapshot[1].sources
        agg == snapshot[1].aggregated
        inCategory(c) == { k \in WithValue(src) : src[k].category = c }
    IN  /\ agg.total_production =
             SumOfValues({ k \in WithValue(src) : src[k].value[1] > 0 }, src)
        /\ agg.total_renewable = SumOfValues(inCategory("renewable"), src)
        /\ agg.total_fossil = SumOfValues(inCategory("fossil"), src)
        /\ agg.total_nuclear = SumOfValues(inCategory("nuclear"), src)

\* C16 witness: solar 10 and wind_onshore 5 (renewable) with fossil_gas 20
\* (fossil) give 35, 15, 20 and 0
C16_Witness ==
  /\ snapshot # <<>>
  /\ DOMAIN snapshot[1].sources = {K_solar, K_wind_onshore, K_fossil_gas}
  /\ snapshot[1].sources[K_solar].value = <<10>>
  /\ snapshot[1].sources[K_wind_onshore].value = <<5>>
  /\ snapshot[1].sources[K_fossil_gas].value = <<20>>
  /\ snapshot[1].aggregated.total_production = 35
  /\ snapshot[1].aggregated.total_renewable = 15
  /\ snapshot[1].aggregated.total_fossil = 20
  /\ snapshot[1].aggregated.total_nuclear = 0

\* |x|
Abs(x) == IF x < 0 THEN -x ELSE x

\* C17: with the sums P of the positive values and R of the renewable
\* values, renewable_share is R / P * 100 rounded to two decimals when
\* P > 0 (a hundredth nearest to the quotient: at most half a hundredth away
\* from it), and 0 when P = 0: no source, no value, or no positive value.
\* The share is in hundredths of a percent.  When the quotient lies exactly
\* halfway between two hundredths, the rounding error of the floating point
\* product decides which of the two it is: 23 of 160 MW give 14.37,
\* 49 of 160 MW give 30.63.
C17_RenewableShare ==
  snapshot # <<>> =>
    LET src == snapshot[1].sources
        share == snapshot[1].aggregated.renewable_share
        P == SumOfValues({ k \in WithValue(src) : src[k].value[1] > 0 }, src)
        R == SumOfValues({ k \in WithValue(src) :
                             src[k].category = "renewable" }, src)
    IN  /\ P = 0 => share = 0
        /\ P > 0 => 2 * Abs(share * P - R * 10000) <= P

\* C17 witness: 23 MW renewable of 160 MW produced, a quotient exactly
\* halfway between 14.37 % and 14.38 %, is a share of 14.37 %
C17_Witness ==
  /\ snapshot # <<>>
  /\ snapshot[1].aggregated.total_renewable = 23
  /\ snapshot[1].aggregated.total_production = 160
  /\ snapshot[1].aggregated.renewable_share = 1437

\* the members of a group that are in `sources` with a value
MembersWithValue(members, sources) == members \cap WithValue(sources)

\* C18: the categories of a snapshot are the four group sums, each the sum
\* of the values of those of its member keys that are in the sources and
\* have a value; a missing member and a member without a value add 0.
C18_GroupSums ==
  snapshot # <<>> =>
    LET src == snapshot[1].sources
        cat == snapshot[1].categories
    IN  /\ DOMAIN cat =
             {"solar_total", "wind_total", "hydro_total", "fossil_total"}
        /\ cat.solar_total =
             SumOfValues(MembersWithValue({K_photovoltaic, K_solar}, src), src)
        /\ cat.wind_total =
             SumOfValues(MembersWithValue({K_wind_onshore, K_wind_offshore},
                                          src), src)
        /\ cat.hydro_total =
             SumOfValues(MembersWithValue({K_hydro_run_of_river,
                                           K_hydro_water_reservoir,
                                           K_hydro_pumped_storage}, src), src)
        /\ cat.fossil_total =
             SumOfValues(MembersWithValue({K_fossil_brown_coal_lignite,
                                           K_fossil_brown_coal_slash_lignite,
                                           K_fossil_hard_coal,
                                           K_fossil_coal_derived_gas,
                                           K_fossil_gas, K_fossil_oil}, src),
                         src)

\* C18 witness: photovoltaic = 23 is the only member of the solar group, a
\* nuclear record has no value and no wind, hydro or fossil member is there
C18_Witness ==
  /\ snapshot # <<>>
  /\ DOMAIN snapshot[1].sources = {K_photovoltaic, K_nuclear}
  /\ snapshot[1].sources[K_photovoltaic].value = <<23>>
  /\ snapshot[1].sources[K_nuclear].value = <<>>
  /\ snapshot[1].categories.solar_total = 23
  /\ snapshot[1].categories.wind_total = 0
  /\ snapshot[1].categories.hydro_total = 0
  /\ snapshot[1].categories.fossil_total = 0

\* a key that holds one of the two forecast markers
HasForecastMarker(k) ==
  \/ \E i \in 1..Len(k) :
       i + 7 <= Len(k)
         /\ SubSeq(k, i, i + 7) = <<"_", "p", "l", "a", "n", "n", "e", "d">>
  \/ \E i \in 1..Len(k) :
       i + 7 <= Len(k)
         /\ SubSeq(k, i, i + 7) = <<"f", "o", "r", "e", "c", "a", "s", "t">>

\* C19: a series whose key holds "_planned" or "forecast" gets no record:
\* the sources of a snapshot are exactly the keys of the other series, and
\* the aggregated totals, the renewable share and the group sums are those
\* of the response with the forecast series taken out.
C19_ForecastsExcluded ==
  snapshot # <<>> =>
    LET ds == parsed[1].data_series
        others == SelectSeq(ds, LAMBDA s : ~HasForecastMarker(Lower(key(s))))
        without == process_response([data_series |-> others], Dates[now])
    IN  /\ \A k \in DOMAIN snapshot[1].sources : ~HasForecastMarker(k)
        /\ Len(others) < Len(ds) =>
             /\ DOMAIN snapshot[1].sources =
                  { Lower(key(others[i])) : i \in 1..Len(others) }
             /\ snapshot[1].sources = without.sources
             /\ snapshot[1].aggregated = without.aggregated
             /\ snapshot[1].categories = without.categories

\* C19 witness: solar 10 next to a solar forecast of 11 and a planned wind
\* series of 12: one record, 10 MW produced
C19_Witness ==
  /\ snapshot # <<>>
  /\ response_data = <<ItemSolar, ItemSolarForecast, ItemWindPlanned>>
  /\ Len(parsed[1].data_series) = 3
  /\ DOMAIN snapshot[1].sources = {K_solar}
  /\ snapshot[1].aggregated.total_production = 10
  /\ snapshot[1].categories.solar_total = 10
  /\ snapshot[1].categories.wind_total = 0

(***************************************************************************)
(* Properties of the historical window (checked under Spec).               *)
(***************************************************************************)
\* the (timestamp, value) pairs of the values of a series, in time order
HistoryPairs(series) ==
  LET present == { i \in 1..Len(series.data) : series.data[i] # <<>> }
  IN  [ j \in 1..Cardinality(present) |->
          << FromTimestampMs(series.timestamps[NthOf(present, j)]),
             series.data[NthOf(present, j)][1] >> ]

\* the history C20 describes for a fetched response: one list per series key
ClaimedHistory(response) ==
  LET ds == response.data_series
      keys == { SourceKey(ds[i]) : i \in 1..Len(ds) }
      lastOf(k) == CHOOSE i \in 1..Len(ds) :
                     /\ SourceKey(ds[i]) = k
                     /\ \A j \in 1..Len(ds) : SourceKey(ds[j]) = k => j <= i
  IN  [ k \in keys |-> HistoryPairs(ds[lastOf(k)]) ]

\* C20: when a historical range is configured and the fetch of the window
\* succeeds, the history of the published snapshot maps every series key of
\* that response to the list of its (timestamp, value) pairs in time order,
\* one pair per value that is not absent.
C20_HistoryAttached ==
  [][ (op = "refresh" /\ cpc = "history" /\ op' = "none" /\ Terminated
         /\ FetchResult(result).kind = "return") =>
        LET claimed == ClaimedHistory(FetchResult(result).data)
        IN  /\ DOMAIN data'[1].history = DOMAIN claimed
            /\ \A k \in DOMAIN claimed :
                 /\ data'[1].history[k] = claimed[k]
                 /\ Len(data'[1].history[k]) = Len(claimed[k])
    ]_vars

(***************************************************************************)
(* Properties of a refresh whose fetches fail (checked under Spec).        *)
(***************************************************************************)
\* the step in which _async_update_data ends
RefreshEnds == op = "refresh" /\ op' = "none"

\* C21: a refresh returns a snapshot only if every fetch it made succeeded; a
\* failure of the day fetch or of the history fetch ends the refresh with
\* UpdateFailed and publishes nothing.  (The `except Exception` of
\* _fetch_historical_data swallows a failure of the history fetch: the
\* refresh returns its snapshot with an empty history.)
C21_AnyFetchFailureIsUpdateFailed ==
  [][ (RefreshEnds /\ Terminated /\ FetchResult(result).kind = "raise") =>
        /\ tick'.update_failed = tick.update_failed + 1
        /\ tick'.returned = tick.returned
        /\ data' = data
    ]_vars

(***************************************************************************)
(* Properties of a cancelled refresh (checked under Spec).                 *)
(***************************************************************************)
\* C22: when the task of a refresh is cancelled while _make_request awaits
\* its HTTP request or its backoff sleep, CancelledError leaves
\* _async_update_data in that very step: it is not recorded as a failure of
\* the attempt or of a fetch, no further request or sleep follows, no
\* UpdateFailed is raised and no snapshot, partial or complete, replaces the
\* live one; nothing of the refresh goes on afterwards.
C22_CancellationPropagates ==
  /\ [](tick.cancelled => (op = "none" /\ pc = "idle" /\ cpc = "idle"))
  /\ [][ (tick'.cancel_requested /\ ~tick.cancel_requested) =>
           /\ tick'.cancelled
           /\ op' = "none"
           /\ pc' = "idle"
           /\ last_exception' \notin RetryableFailures
           /\ Len(requests') <= Len(requests)
           /\ Len(sleeps') <= Len(sleeps)
           /\ tick'.day_exc = tick.day_exc
           /\ tick'.history_exc = tick.history_exc
           /\ tick'.update_failed = tick.update_failed
           /\ tick'.returned = tick.returned
           /\ data' = data
           /\ structured_data' = <<>>
       ]_vars

\* C22 witness: a refresh of the loaded entry was cancelled during its
\* history fetch, after it had built its snapshot; the live snapshot is the
\* one of an earlier refresh
C22_Witness ==
  /\ tick.cancelled
  /\ tick.fetch_calls = 2
  /\ tick.returned = 0
  /\ tick.update_failed = 0
  /\ entry.state = "loaded"
  /\ data # <<>>
  /\ op = "none"

(***************************************************************************)
(* Properties of an empty attempt budget (checked under SpecClient).       *)
(***************************************************************************)
\* C27: a call of _make_request with retries = 0 makes no attempt: it issues
\* no HTTP request, sleeps never, records no failure of an attempt and ends
\* by raising the generic EnergyChartsConnectionError; it neither returns
\* nor raises an absent (None) exception.
C27_ZeroRetriesRaisesGeneric ==
  (op = "direct" /\ retries = 0) =>
    /\ pc = "raised"
    /\ result = Raise("EnergyChartsConnectionError")
    /\ result.kind # "return"
    /\ result.exc # "None"
    /\ last_exception = "None"
    /\ requests = <<>>
    /\ sleeps = <<>>
    /\ outcome = NoOutcome

\* C27 witness: a direct call with retries = 0 has raised the generic error
\* without a request
C27_Witness ==
  /\ op = "direct"
  /\ fn = "_make_request"
  /\ retries = 0
  /\ pc = "raised"
  /\ result.exc = "EnergyChartsConnectionError"
  /\ requests = <<>>

(***************************************************************************)
(* Properties of the group sums and the category table for the series of   *)
(* the API (checked under SpecGroups).                                     *)
(***************************************************************************)
\* the source key _process_response derives for a series of this English name
DerivedKey(name_) == SourceKey([name |-> [en |-> name_]])

\* C26: in a snapshot built from the API's series, hydro_total is the sum of
\* the latest values of the run-of-river, reservoir and pumped-storage
\* series that are present, solar_total that of photovoltaic and solar,
\* wind_total that of onshore and offshore, and fossil_total that of the
\* series of the fossil list (brown coal, hard coal, coal-derived gas, gas,
\* oil), each series found under the key derived from its English name.
C26_GroupSumsOfApiSeries ==
  snapshot # <<>> =>
    LET src == snapshot[1].sources
        cat == snapshot[1].categories
        sumOf(names) ==
          SumOfValues(
            MembersWithValue({ DerivedKey(n) : n \in names }, src), src)
    IN  /\ cat.hydro_total =
             sumOf({N_Hydro_Run_of_River, N_Hydro_water_reservoir,
                    N_Hydro_pumped_storage})
        /\ cat.solar_total = sumOf({N_Photovoltaic, N_Solar})
        /\ cat.wind_total = sumOf({N_Wind_onshore, N_Wind_offshore})
        /\ cat.fossil_total =
             sumOf({N_Brown_coal, N_Fossil_hard_coal,
                    N_Fossil_coal_derived_gas, N_Fossil_gas,
                    <<"F", "o", "s", "s", "i", "l", " ", "o", "i", "l">>})

\* the keys of SOURCE_CATEGORIES and the member keys of the four group sums
TableKeys ==
  UNION { SourceCategoryKeys(c) : c \in Categories }
    \cup { FOSSIL_SOURCES[i] : i \in 1..Len(FOSSIL_SOURCES) }
    \cup { K_photovoltaic, K_solar, K_wind_onshore, K_wind_offshore,
           K_hydro_run_of_river, K_hydro_water_reservoir,
           K_hydro_pumped_storage }

\* C28: every key of SOURCE_CATEGORIES and of the group member lists is an
\* output of the key derivation, so the series it is written for is matched:
\* whenever a response holds the series whose name is spelled as a table key
\* (up to what the derivation does to the spelling), its record is stored
\* under that very key and carries the key's category, not "other".
C28_TableKeysAreDerivable ==
  snapshot # <<>> =>
    LET src == snapshot[1].sources
    IN  \A k \in TableKeys :
          DerivedKey(k) \in DOMAIN src =>
            /\ DerivedKey(k) = k
            /\ k \in DOMAIN src
            /\ src[k].category = SOURCE_CATEGORIES_get(k)
            /\ src[k].category # "other"

(***************************************************************************)
(* Properties of the characters of a derived key (checked under            *)
(* SpecGroups).                                                            *)
(***************************************************************************)
LowerAlnum ==
  { LowerAlphabet[i] : i \in 1..Len(LowerAlphabet) }
    \cup { DigitChars[i] : i \in 1..Len(DigitChars) }

\* the characters key turns into an underscore, and those it drops
KeySeparators == {" ", "/", "-"}
KeyDropped == {"(", ")", ","}

\* no two adjacent underscores and none at either end
SingleInnerUnderscores(k) ==
  /\ ~Contains(k, <<"_", "_">>)
  /\ k # <<>> => (k[1] # "_" /\ k[Len(k)] # "_")

\* the key C23 describes: lower case, every run of characters that are not
\* alphanumeric becomes one underscore, none at the ends
AlnumKey(name_) ==
  LET s == Lower(name_)
      isAlnum(i) == s[i] \in LowerAlnum
      at == [ i \in 1..Len(s) |->
                IF isAlnum(i) THEN s[i]
                ELSE IF /\ i > 1
                        /\ isAlnum(i - 1)
                        /\ \E j \in (i + 1)..Len(s) : isAlnum(j)
                THEN "_"
                ELSE "" ]
  IN  SelectSeq(at, LAMBDA c : c # "")

\* C23 as stated: the key of every series holds lower-case alphanumeric
\* characters and single underscores only, none at either end, every run of
\* other characters of the English name having become one underscore.
C23_KeyIsAlphanumeric ==
  (parsed # <<>> /\ parsed[1].ok) =>
    \A j \in 1..Len(parsed[1].data_series) :
      LET k == key(parsed[1].data_series[j])
      IN  /\ \A i \in 1..Len(k) : k[i] \in LowerAlnum \cup {"_"}
          /\ SingleInnerUnderscores(k)
          /\ k = AlnumKey(name_en(parsed[1].data_series[j]))

\* C23 amended: the key of every series holds no upper-case letter, no
\* space, slash, hyphen, parenthesis or comma, no two adjacent underscores
\* and no underscore at either end; every other character of the lower-cased
\* English name, alphanumeric or not, is in the key, in the same order, and
\* the key holds nothing else but underscores.
C23_KeyCharacters ==
  (parsed # <<>> /\ parsed[1].ok) =>
    \A j \in 1..Len(parsed[1].data_series) :
      LET k == key(parsed[1].data_series[j])
          n == Lower(name_en(parsed[1].data_series[j]))
      IN  /\ \A i \in 1..Len(k) :
               k[i] \notin UpperLetters \cup KeySeparators \cup KeyDropped
          /\ SingleInnerUnderscores(k)
          /\ SelectSeq(k, LAMBDA c : c # "_") =
               SelectSeq(n, LAMBDA c :
                 c \notin KeySeparators \cup KeyDropped \cup {"_"})

\* C23 witness: the key of the load series keeps the full stop of "incl."
C23_Witness ==
  /\ parsed # <<>>
  /\ parsed[1].ok
  /\ Len(parsed[1].data_series) = 1
  /\ name_en(parsed[1].data_series[1]) = N_Load
  /\ Contains(key(parsed[1].data_series[1]), <<"l", ".", "_", "s">>)
  /\ \E i \in 1..Len(key(parsed[1].data_series[1])) :
       key(parsed[1].data_series[1])[i] \notin LowerAlnum \cup {"_"}

(***************************************************************************)
(* Properties of the time axis of a series (checked under SpecGroups).     *)
(***************************************************************************)
\* C24: every series from_api_response produces has as many timestamps as
\* values, the timestamps being the xAxisValues of the first object of the
\* response.
C24_TimestampsMatchData ==
  (parsed # <<>> /\ parsed[1].ok) =>
    \A j \in 1..Len(parsed[1].data_series) :
      /\ parsed[1].data_series[j].timestamps =
           ItemGet(response_data[1], "xAxisValues", <<>>)
      /\ Len(parsed[1].data_series[j].timestamps) =
           Len(parsed[1].data_series[j].data)

\* the position of the last value of a series that is not absent
LastPresent(d) ==
  CHOOSE i \in 1..Len(d) :
    d[i] # <<>> /\ \A j \in 1..Len(d) : d[j] # <<>> => j <= i

\* C25: a source record with a value carries the timestamp found at the
\* position of that value, the last position of its series that is not
\* absent, so value and timestamp belong to the same instant; a record
\* lacks a timestamp only if it lacks a value.
C25_TimestampOfLatestValue ==
  snapshot # <<>> =>
    LET src == snapshot[1].sources
        ds == snapshot[1].raw_response.data_series
    IN  \A k \in DOMAIN src :
          LET last == CHOOSE i \in 1..Len(ds) :
                        /\ SourceKey(ds[i]) = k
                        /\ \A j \in 1..Len(ds) : SourceKey(ds[j]) = k => j <= i
              d == ds[last].data
              ts == ds[last].timestamps
          IN  /\ src[k].value # <<>> =>
                   /\ LastPresent(d) <= Len(ts)
                   /\ src[k].value = d[LastPresent(d)]
                   /\ src[k].timestamp = <<FromTimestampMs(ts[LastPresent(d)])>>
              /\ src[k].timestamp = <<>> => src[k].value = <<>>

(***************************************************************************)
(* Properties of the renewable share (checked under SpecGroups).           *)
(***************************************************************************)
\* C29: the renewable share of a snapshot, in hundredths of a percent, lies
\* between 0 and 100 percent inclusive, whatever the values of its source
\* records are: positive, zero, negative or absent.
C29_ShareWithinBounds ==
  snapshot # <<>> =>
    /\ snapshot[1].aggregated.renewable_share >= 0
    /\ snapshot[1].aggregated.renewable_share <= 100 * 100

(***************************************************************************)
(* Properties of series that share a key (checked under SpecGroups).       *)
(***************************************************************************)
\* the series of a response without those that a later series of the same
\* source key follows
RECURSIVE DropShadowed(_)
DropShadowed(s) ==
  IF s = <<>> THEN <<>>
  ELSE (IF \E j \in 2..Len(s) : SourceKey(s[j]) = SourceKey(s[1])
        THEN <<>> ELSE <<s[1]>>)
         \o DropShadowed(Tail(s))

\* C30: of the series of a response that are no forecasts and derive the
\* same source key, the sources keep one record under that key, the record
\* of the last of them; totals and group sums are those of the response
\* without the earlier ones; and the sources have at most as many entries as
\* the response has such series.
C30_LaterSeriesWins ==
  snapshot # <<>> =>
    LET ds == snapshot[1].raw_response.data_series
        src == snapshot[1].sources
        nonf == { i \in 1..Len(ds) : ~HasForecastMarker(SourceKey(ds[i])) }
        alone == process_response([data_series |-> DropShadowed(ds)],
                                  snapshot[1].timestamp)
    IN  /\ \A i \in nonf :
             LET k == SourceKey(ds[i])
                 last == CHOOSE j \in nonf :
                           /\ SourceKey(ds[j]) = k
                           /\ \A m \in nonf : SourceKey(ds[m]) = k => m <= j
             IN  /\ k \in DOMAIN src
                 /\ src[k].value = latest_value(ds[last])
                 /\ src[k].timestamp = latest_timestamp(ds[last])
                 /\ src[k].name_en = name_en(ds[last])
                 /\ src[k].name_de = name_de(ds[last])
                 /\ src[k].color = ds[last].color
        /\ Cardinality(DOMAIN src) <= Cardinality(nonf)
        /\ src = alone.sources
        /\ snapshot[1].aggregated = alone.aggregated
        /\ snapshot[1].categories = alone.categories

\* C30 witness: two series without an English name, both keyed "unknown",
\* the first with the value 3 and the second with 9; the one record has 9
\* and total_production is 9
C30_Witness ==
  /\ snapshot # <<>>
  /\ response_data = <<ItemNameNull, ItemNameEmptyList>>
  /\ Len(snapshot[1].raw_response.data_series) = 2
  /\ DOMAIN snapshot[1].sources = { <<"u", "n", "k", "n", "o", "w", "n">> }
  /\ snapshot[1].sources[<<"u", "n", "k", "n", "o", "w", "n">>].value = <<9>>
  /\ snapshot[1].aggregated.total_production = 9

====
